---- MODULE Spec2Model ----
(***************************************************************************)
(* Verification model of the hex-grid simulation core of Platopotato/RT:   *)
(* the grid navigator (lib/mapUtils.ts), the noise field generator          *)
(* (server/gameLogic/utils/noise.ts), the world generator (mapGenerator)    *)
(* and the faction AI engine (server/gameLogic/ai/aiActions.ts).            *)
(*                                                                          *)
(* Conventions.                                                             *)
(*  - A JavaScript string is a sequence of one-character strings, so that   *)
(*    formatting and parsing are computed character by character.           *)
(*  - Terrain movement costs and path costs are carried in half units       *)
(*    (1.5 is 3), which keeps the code's fractional comparisons exact.      *)
(*  - The 32-bit state of the linear-congruential generators is a pair     *)
(*    <<high 16 bits, low 16 bits>>.                                        *)
(*  - Noise values are carried in millionths, rounded down.                 *)
(***************************************************************************)
EXTENDS Integers, Sequences, FiniteSets, TLC

VARIABLES
  \* grid navigator, coordinate helpers
  cpc, cq, cr, token, decoded,
  \* grid navigator, findPath
  ppc, mapData, pStart, pGoal, pResult,
  \* noise generator: the module-level permutation table
  PERMUTATION,
  \* world generator: the arguments of generateMapData, its locals, the
  \* position of its loops, and the result of the previous call
  gpc, gRadius, gSeed, gSettings, rng, noiseSeed, gMap, gq, gr, gi, gKind,
  gSuitable, gShuffled, startingLocations, gCall, gFirst,
  \* AI decision engine: the arguments of generateAIActions and its outcome
  \* and the outcome of the previous call
  apc, tribe, allTribes, aiMapData, actions, threw, aCall, aFirst,
  \* server: the game state, the position of the process_turn handler, the
  \* tribes generateAIActions was invoked for, the tribes handed to
  \* processGlobalTurn, and the tribes as they were when the handler began
  tpc, gameState, invoked, handed, atStart,
  \* server: the constant VISIBILITY_RANGE of lib/constants, the clock that
  \* Date.now() reads, and the number of alerts emitted to clients
  VISIBILITY_RANGE, now, alerts,
  \* client: the socket (socket.connected and the manager's reconnection),
  \* the isConnected flag, the listeners of the socket's connect event, and
  \* the promise of each caller of ensureConnection, and the callers whose
  \* timer is running, in the order in which the timers were set
  socket, attempts, isConnected, listeners, promise, timers,
  \* pure helpers called on their own: the arguments and what the call gave
  hpc, hA, hB, hToken, hOut

coordVars == <<cpc, cq, cr, token, decoded>>
pathVars == <<ppc, mapData, pStart, pGoal, pResult>>
genInputs == <<gRadius, gSeed, gSettings, gCall, gFirst>>
genVars == <<PERMUTATION, gpc, rng, noiseSeed, gMap, gq, gr, gi, gKind,
             gSuitable, gShuffled, startingLocations, genInputs>>
aiVars == <<apc, tribe, allTribes, aiMapData, actions, threw, aCall, aFirst>>
helperVars == <<hpc, hA, hB, hToken, hOut>>
turnVars == <<tpc, gameState, invoked, handed, atStart>>
joinVars == <<VISIBILITY_RANGE, now, alerts>>
clientVars == <<socket, attempts, isConnected, listeners, promise, timers>>
vars == <<coordVars, pathVars, genVars, aiVars, helperVars, turnVars, joinVars,
          clientVars>>

(***************************************************************************)
(* Bounds of the model.                                                    *)
(***************************************************************************)
MaxCoord == 12

\* findPath is run on rhombic patches of PatchSize x PatchSize hexes of one
\* base terrain in which at most MaxRough hexes differ (another terrain, or
\* no hex at all)
PatchSize == 3

MaxRough == 2

\* generateMapData is run with the radii 0, 3 and MaxRadius, with MaxSeeds
\* seeds from 42 on
MaxRadius == 5

MaxSeeds == 2

\* axialDistance is called on all coordinates with q and r in -MaxDist..MaxDist
MaxDist == 3

(***************************************************************************)
(* JavaScript string and number helpers used by lib/mapUtils.ts.           *)
(***************************************************************************)
Digits == <<"0", "1", "2", "3", "4", "5", "6", "7", "8", "9">>

DigitSet == {Digits[i] : i \in 1..10}

DigitVal(c) == (CHOOSE i \in 1..10 : Digits[i] = c) - 1

RECURSIVE NatToString(_)
NatToString(n) ==
  IF n < 10 THEN <<Digits[n + 1]>>
  ELSE NatToString(n \div 10) \o <<Digits[(n % 10) + 1]>>

\* Number.prototype.toString() of an integer
toString(n) == IF n < 0 THEN <<"-">> \o NatToString(-n) ELSE NatToString(n)

\* String.prototype.padStart(targetLength, fill) with a one-character fill
padStart(s, targetLength, fill) ==
  IF Len(s) >= targetLength THEN s
  ELSE [i \in 1..(targetLength - Len(s)) |-> fill] \o s

\* String.prototype.split(sep) with a one-character separator
RECURSIVE split(_, _)
split(s, sep) ==
  IF \A i \in 1..Len(s) : s[i] # sep THEN <<s>>
  ELSE LET k == CHOOSE i \in 1..Len(s) : s[i] = sep /\ \A j \in 1..(i - 1) : s[j] # sep
       IN <<SubSeq(s, 1, k - 1)>> \o split(SubSeq(s, k + 1, Len(s)), sep)

\* the longest prefix of s made of decimal digits
RECURSIVE DigitPrefix(_)
DigitPrefix(s) ==
  IF s = <<>> \/ Head(s) \notin DigitSet THEN <<>>
  ELSE <<Head(s)>> \o DigitPrefix(Tail(s))

RECURSIVE DigitsToNat(_, _)
DigitsToNat(s, acc) ==
  IF s = <<>> THEN acc ELSE DigitsToNat(Tail(s), acc * 10 + DigitVal(Head(s)))

RECURSIVE TrimStart(_)
TrimStart(s) == IF s # <<>> /\ Head(s) = " " THEN TrimStart(Tail(s)) ELSE s

\* parseInt(s, 10): leading blanks, an optional sign, then the longest run of
\* digits; what follows the digits is ignored; no digit at all gives NaN.
\* The result is [nan, val]; val is 0 when nan.
parseInt(s) ==
  LET t == TrimStart(s)
      neg == t # <<>> /\ Head(t) = "-"
      body == IF t # <<>> /\ Head(t) \in {"-", "+"} THEN Tail(t) ELSE t
      ds == DigitPrefix(body)
  IN IF ds = <<>> THEN [nan |-> TRUE, val |-> 0]
     ELSE [nan |-> FALSE,
           val |-> IF neg THEN -DigitsToNat(ds, 0) ELSE DigitsToNat(ds, 0)]

Undefined == <<"u", "n", "d", "e", "f", "i", "n", "e", "d">>

(***************************************************************************)
(* lib/mapUtils.ts: coordinate helpers.                                    *)
(***************************************************************************)
\* const [qStr, rStr] = hexString.split('.'); a missing part is undefined,
\* which parseInt reads as the string "undefined".
parseHexCoords(hexString) ==
  LET parts == split(hexString, ".")
      qStr == parts[1]
      rStr == IF Len(parts) >= 2 THEN parts[2] ELSE Undefined
      pq == parseInt(qStr)
      pr == parseInt(rStr)
  IN [q |-> pq.val, r |-> pr.val, nan |-> pq.nan \/ pr.nan]

formatHexCoords(q, r) ==
  LET qStr == padStart(toString(q), 3, "0")
      rStr == padStart(toString(r), 3, "0")
  IN qStr \o <<".">> \o rStr

Abs(x) == IF x < 0 THEN -x ELSE x

\* axialDistance without Math.abs around its first term
axialDistanceSigned(a, b) ==
  ((a.q - b.q) + Abs(a.q + a.r - b.q - b.r) + Abs(a.r - b.r)) \div 2

axialDistance(a, b) ==
  (Abs(a.q - b.q) + Abs(a.q + a.r - b.q - b.r) + Abs(a.r - b.r)) \div 2

directions ==
  << [q |-> 1, r |-> 0], [q |-> 1, r |-> -1], [q |-> 0, r |-> -1],
     [q |-> -1, r |-> 0], [q |-> -1, r |-> 1], [q |-> 0, r |-> 1] >>

getNeighbors(hex) ==
  [i \in 1..6 |-> [q |-> hex.q + directions[i].q, r |-> hex.r + directions[i].r]]

Coord(q, r) == [q |-> q, r |-> r]

\* the poi field of a hex without point of interest (poi is optional)
NoPoi == [type |-> "none", difficulty |-> 0, id |-> <<>>]

(***************************************************************************)
(* lib/mapUtils.ts: findPath, A* over the hex graph.  mapData is the       *)
(* sequence of hex records [q, r, terrain, poi].  Costs are in half units. *)
(***************************************************************************)
TerrainTypes ==
  {"Plains", "Desert", "Mountains", "Forest", "Ruins", "Wasteland", "Water",
   "Radiation", "Crater", "Swamp"}

\* twice the movement cost of the terrainCosts table
terrainCosts ==
  [t \in TerrainTypes |->
     CASE t = "Plains" -> 2
       [] t = "Desert" -> 3
       [] t = "Mountains" -> 6
       [] t = "Forest" -> 3
       [] t = "Ruins" -> 3
       [] t = "Wasteland" -> 4
       [] t = "Water" -> 10
       [] t = "Radiation" -> 8
       [] t = "Crater" -> 4
       [] t = "Swamp" -> 5]

\* the threshold of "if (movementCost >= 10) continue"
ImpassableCost == 10

HexKey(hex) == formatHexCoords(hex.q, hex.r)

\* terrainMap: the last hex of mapData with a given key decides its terrain
terrainMapOf(md) ==
  LET keyAt == [i \in 1..Len(md) |-> HexKey(md[i])]
  IN [k \in {keyAt[i] : i \in 1..Len(md)} |->
        md[CHOOSE i \in 1..Len(md) :
             keyAt[i] = k /\ \A j \in (i + 1)..Len(md) : keyAt[j] # k].terrain]

\* the first key of the open set, in insertion order, with the lowest f-score
LowestFScore(open, fScore) ==
  open[CHOOSE i \in 1..Len(open) :
         /\ \A j \in 1..Len(open) : fScore[open[i]] <= fScore[open[j]]
         /\ \A j \in 1..(i - 1) : fScore[open[j]] > fScore[open[i]]]

InSeq(x, s) == \E i \in 1..Len(s) : s[i] = x

\* one pass of the neighbour loop body for one neighbour of current
VisitNeighbor(st, current, neighbor, terrainMap, goal) ==
  LET neighborKey == formatHexCoords(neighbor.q, neighbor.r)
  IN IF neighborKey \in st.closed \/ neighborKey \notin DOMAIN terrainMap THEN st
     ELSE
       LET movementCost == terrainCosts[terrainMap[neighborKey]]
           tentativeGScore == st.g[current] + movementCost
           inOpen == InSeq(neighborKey, st.open)
           \* gScore[neighborKey] || Infinity
           known == neighborKey \in DOMAIN st.g /\ st.g[neighborKey] # 0
       IN IF movementCost >= 2 * ImpassableCost THEN st
          ELSE IF inOpen /\ known /\ tentativeGScore >= st.g[neighborKey] THEN st
          ELSE [st EXCEPT
                  !.open = IF inOpen THEN @ ELSE Append(@, neighborKey),
                  !.cameFrom = (neighborKey :> current) @@ @,
                  !.g = (neighborKey :> tentativeGScore) @@ @,
                  !.f = (neighborKey :> tentativeGScore + 2 * axialDistance(neighbor, goal)) @@ @]

RECURSIVE VisitNeighbors(_, _, _, _, _, _)
VisitNeighbors(st, current, neighbors, i, terrainMap, goal) ==
  IF i > Len(neighbors) THEN st
  ELSE VisitNeighbors(VisitNeighbor(st, current, neighbors[i], terrainMap, goal),
                      current, neighbors, i + 1, terrainMap, goal)

\* while (cameFrom[current]) { current = cameFrom[current]; path.unshift(current) }
RECURSIVE ReconstructPath(_, _, _)
ReconstructPath(cameFrom, current, path) ==
  IF current \in DOMAIN cameFrom
  THEN ReconstructPath(cameFrom, cameFrom[current], <<cameFrom[current]>> \o path)
  ELSE path

NoPath == [found |-> FALSE, path |-> <<>>, cost |-> 0]

\* the while (openSet.size > 0) loop
RECURSIVE SearchLoop(_, _, _)
SearchLoop(st, goal, terrainMap) ==
  IF st.open = <<>> THEN NoPath
  ELSE
    LET current == LowestFScore(st.open, st.f)
    IN IF current = formatHexCoords(goal.q, goal.r)
       THEN [found |-> TRUE,
             path |-> ReconstructPath(st.cameFrom, current, <<current>>),
             \* Math.ceil(totalCost)
             cost |-> (st.g[current] + 1) \div 2]
       ELSE
         LET moved == [st EXCEPT !.open = SelectSeq(@, LAMBDA k : k # current),
                                 !.closed = @ \cup {current}]
             currentCoords == parseHexCoords(current)
         IN SearchLoop(VisitNeighbors(moved, current, getNeighbors(currentCoords), 1,
                                      terrainMap, goal),
                       goal, terrainMap)

findPath(start, goal, md) ==
  LET startKey == formatHexCoords(start.q, start.r)
  IN SearchLoop([open |-> <<startKey>>,
                 closed |-> {},
                 g |-> (startKey :> 0),
                 f |-> (startKey :> 2 * axialDistance(start, goal)),
                 cameFrom |-> <<>>],
                goal, terrainMapOf(md))

(***************************************************************************)
(* The linear-congruential generator of seedRandom (mapGenerator) and of   *)
(* initPermutation (noise.ts):                                             *)
(*     state = (state * 1664525 + 1013904223) % 4294967296                 *)
(* The state is the pair <<state \div 65536, state % 65536>>.  The         *)
(* products of the code stay below 2^53, so the doubles are exact.         *)
(***************************************************************************)
Two16 == 65536

LcgMultiplier == 1664525

LcgIncrement == 1013904223

\* let state = seed
seedRandom(seed) == <<seed \div Two16, seed % Two16>>

\* the state after one call of the generator
LcgNext(s) ==
  LET lo == s[2] * (LcgMultiplier % Two16) + (LcgIncrement % Two16)
      hi == ((s[1] * (LcgMultiplier % Two16)) % Two16)
            + s[2] * (LcgMultiplier \div Two16)
            + (LcgIncrement \div Two16) + (lo \div Two16)
  IN <<hi % Two16, lo % Two16>>

\* Math.floor(v * n) for the value v = state / 4294967296 just drawn
FloorMul(s, n) == (s[1] * n + ((s[2] * n) \div Two16)) \div Two16

\* v < num / den for the value v = state / 4294967296 just drawn
RngLess(s, num, den) ==
  LET x == num * Two16
      y == (x % den) * Two16
  IN \/ s[1] < x \div den
     \/ /\ s[1] = x \div den
        /\ IF y % den = 0 THEN s[2] < y \div den ELSE s[2] <= y \div den

(***************************************************************************)
(* server/gameLogic/utils/noise.ts.  PERMUTATION is the module-level       *)
(* array; GRADIENT the eight gradient vectors.                             *)
(***************************************************************************)
GRADIENT ==
  << <<1, 1>>, <<-1, 1>>, <<1, -1>>, <<-1, -1>>,
     <<1, 0>>, <<-1, 0>>, <<0, 1>>, <<0, -1>> >>

\* one pass of the shuffle loop body: j = Math.floor(random() * (i + 1)) and
\* the swap of PERMUTATION[i] and PERMUTATION[j]; st is [perm, s], the table
\* and the state of the local generator
ShuffleStep(st, i) ==
  LET s2 == LcgNext(st.s)
      j == FloorMul(s2, i + 1)
  IN [perm |-> [st.perm EXCEPT ![i] = st.perm[j], ![j] = st.perm[i]], s |-> s2]

\* the passes of "for (let i = 255; i > 0; i--)" from i = hi down to i = lo,
\* in order (evaluated by halves)
RECURSIVE ShuffleSteps(_, _, _)
ShuffleSteps(st, hi, lo) ==
  IF hi < lo THEN st
  ELSE IF hi = lo THEN ShuffleStep(st, hi)
  ELSE LET mid == (hi + lo) \div 2
           upper == ShuffleSteps(st, hi, mid + 1)
       IN \* the test is always true; it has the upper half computed first
          IF upper.s[1] >= 0 THEN ShuffleSteps(upper, mid, lo) ELSE upper

\* the mutated variant of initPermutation: the table is filled with ordered
\* values only while it is still empty
initPermutationOnce(table, seed) ==
  LET start == IF 0 \in DOMAIN table THEN [i \in 0..255 |-> table[i]]
               ELSE [i \in 0..255 |-> i]
      shuffled == ShuffleSteps([perm |-> start, s |-> seedRandom(seed)], 255, 1).perm
  IN [i \in 0..511 |-> shuffled[i % 256]]

\* initPermutation(seed), applied to the module-level table: fill with ordered
\* values, shuffle, duplicate
initPermutation(table, seed) ==
  LET filled == [i \in 0..255 |-> i]
      shuffled == ShuffleSteps([perm |-> filled, s |-> seedRandom(seed)], 255, 1).perm
  IN [i \in 0..511 |-> shuffled[i % 256]]

dot(a, b) == a[1] * b[1] + a[2] * b[2]

\* smootherstep(k / 10), in units of 10^-5
smootherstep(k) == k * k * k * (k * (k * 6 - 150) + 1000)

\* Math.floor(w * d / 10^5) for 0 <= w <= 10^5, without leaving 32 bits
FloorScale(w, d) == (w * (d \div 1000) + ((w * (d % 1000)) \div 1000)) \div 100

\* the function returned by generateNoise, reading the table it is given;
\* xt and yt are the coordinates in tenths, the result is in millionths
noise(table, xt, yt) ==
  LET xi == (xt \div 10) % 256
      yi == (yt \div 10) % 256
      kx == xt - 10 * (xt \div 10)
      ky == yt - 10 * (yt \div 10)
      gi00 == (table[(xi + table[yi % 256]) % 256]) % 8
      gi01 == (table[(xi + table[(yi + 1) % 256]) % 256]) % 8
      gi10 == (table[((xi + 1) + table[yi % 256]) % 256]) % 8
      gi11 == (table[((xi + 1) + table[(yi + 1) % 256]) % 256]) % 8
      dp00 == dot(GRADIENT[gi00 + 1], <<kx, ky>>)
      dp01 == dot(GRADIENT[gi01 + 1], <<kx, ky - 10>>)
      dp10 == dot(GRADIENT[gi10 + 1], <<kx - 10, ky>>)
      dp11 == dot(GRADIENT[gi11 + 1], <<kx - 10, ky - 10>>)
      u == smootherstep(kx)
      v == smootherstep(ky)
      \* lerp(a, b, t) = a + t * (b - a)
      x1 == dp00 * 100000 + u * (dp10 - dp00)
      x2 == dp01 * 100000 + u * (dp11 - dp01)
  IN x1 + FloorScale(v, x2 - x1)

(***************************************************************************)
(* server/gameLogic/mapGenerator.ts: the pure parts of generateBaseMap,    *)
(* addPointsOfInterest and findStartingLocations.                          *)
(* settings.biases is the sequence of its entries [terrain, weight] in     *)
(* insertion order; a hex is [q, r, terrain, poi].                         *)
(***************************************************************************)
RECURSIVE SumWeights(_, _)
SumWeights(biases, i) ==
  IF i > Len(biases) THEN 0 ELSE biases[i].weight + SumWeights(biases, i + 1)

\* Math.floor((weight / totalWeight) * 1000); with a total of 0 the quotient
\* is NaN and the loop "i < count" adds nothing
PoolCount(biases, i) ==
  LET totalWeight == SumWeights(biases, 1)
  IN IF totalWeight = 0 THEN 0 ELSE (biases[i].weight * 1000) \div totalWeight

RECURSIVE PoolLength(_, _)
PoolLength(biases, i) ==
  IF i > Len(biases) THEN 0 ELSE PoolCount(biases, i) + PoolLength(biases, i + 1)

\* terrainTypes[k], k counted from 0; undefined past the end of the array
RECURSIVE PoolAt(_, _, _)
PoolAt(biases, i, k) ==
  IF i > Len(biases) THEN "undefined"
  ELSE IF k < PoolCount(biases, i) THEN biases[i].terrain
  ELSE PoolAt(biases, i + 1, k - PoolCount(biases, i))

\* the layered terrain decision for one hex; combined2 is noiseValue1 +
\* noiseValue2 in millionths (twice combinedNoise), s the generator state.
\* Returns the terrain and the generator state after the draws.
ChooseTerrain(combined2, s, biases) ==
  LET s1 == LcgNext(s)
      s2 == LcgNext(s1)
  IN IF combined2 < -1000000
     THEN [terrain |-> IF RngLess(s1, 7, 10) THEN "Water" ELSE "Swamp", rng |-> s1]
     ELSE IF combined2 < -400000
     THEN [terrain |-> IF RngLess(s1, 6, 10) THEN "Forest" ELSE "Swamp", rng |-> s1]
     ELSE IF combined2 < 400000
     THEN IF RngLess(s1, 8, 10) THEN [terrain |-> "Plains", rng |-> s1]
          ELSE [terrain |-> PoolAt(biases, 1, FloorMul(s2, PoolLength(biases, 1))),
                rng |-> s2]
     ELSE IF combined2 < 1000000
     THEN [terrain |-> IF RngLess(s1, 6, 10) THEN "Wasteland" ELSE "Desert", rng |-> s1]
     ELSE IF RngLess(s1, 7, 10) THEN [terrain |-> "Mountains", rng |-> s1]
          ELSE [terrain |-> IF RngLess(s2, 5, 10) THEN "Radiation" ELSE "Crater",
                rng |-> s2]

poiDistribution ==
  << [type |-> "Scrapyard", count |-> 12],
     [type |-> "FoodSource", count |-> 15],
     [type |-> "WeaponsCache", count |-> 8],
     [type |-> "ResearchLab", count |-> 5],
     [type |-> "Settlement", count |-> 6],
     [type |-> "Ruins", count |-> 10],
     [type |-> "BanditCamp", count |-> 7],
     [type |-> "Mine", count |-> 4],
     [type |-> "Vault", count |-> 2],
     [type |-> "Battlefield", count |-> 3],
     [type |-> "Factory", count |-> 4],
     [type |-> "Crater", count |-> 3],
     [type |-> "Radiation", count |-> 2] >>

terrainCompatibility(type) ==
  CASE type = "Scrapyard" -> {"Plains", "Wasteland", "Ruins"}
    [] type = "FoodSource" -> {"Plains", "Forest", "Swamp"}
    [] type = "WeaponsCache" -> {"Ruins", "Mountains", "Wasteland"}
    [] type = "ResearchLab" -> {"Ruins", "Plains"}
    [] type = "Settlement" -> {"Plains", "Forest"}
    [] type = "Ruins" -> {"Ruins"}
    [] type = "BanditCamp" -> {"Wasteland", "Desert", "Mountains"}
    [] type = "Mine" -> {"Mountains"}
    [] type = "Vault" -> {"Ruins", "Mountains"}
    [] type = "Battlefield" -> {"Plains", "Wasteland"}
    [] type = "Factory" -> {"Ruins", "Plains"}
    [] type = "Crater" -> {"Crater"}
    [] type = "Radiation" -> {"Radiation"}
    [] OTHER -> {"Plains", "Desert", "Mountains", "Forest", "Ruins", "Wasteland"}

\* the variant of the filter below that forgets the "!hex.poi" test
SuitableForPoiAnyHex(map, type) ==
  SelectSeq(map, LAMBDA hex : hex.terrain \in terrainCompatibility(type))

\* map.filter(hex => compatibleTerrain.includes(hex.terrain) && !hex.poi)
SuitableForPoi(map, type) ==
  SelectSeq(map, LAMBDA hex : hex.terrain \in terrainCompatibility(type)
                              /\ hex.poi = NoPoi)

\* map.findIndex(h => h.q === hex.q && h.r === hex.r); 0 stands for -1
FindIndex(map, hex) ==
  IF \E i \in 1..Len(map) : map[i].q = hex.q /\ map[i].r = hex.r
  THEN CHOOSE i \in 1..Len(map) :
         /\ map[i].q = hex.q /\ map[i].r = hex.r
         /\ \A j \in 1..(i - 1) : ~(map[j].q = hex.q /\ map[j].r = hex.r)
  ELSE 0

\* Array.prototype.splice(index, 1), index counted from 0
Splice(arr, index) ==
  SubSeq(arr, 1, index) \o SubSeq(arr, index + 2, Len(arr))

maxStartingLocations == 16

\* a filter of findStartingLocations without the test of the terrain and of
\* the point of interest
SuitableForStartInBand(map, radius) ==
  SelectSeq(map, LAMBDA hex :
    LET distance == axialDistance(Coord(0, 0), Coord(hex.q, hex.r))
    IN /\ 10 * distance >= 3 * radius
       /\ 10 * distance <= 8 * radius)

\* the filter of findStartingLocations: plains or forest, between 30% and 80%
\* of the radius from the centre, no point of interest
SuitableForStart(map, radius) ==
  SelectSeq(map, LAMBDA hex :
    LET distance == axialDistance(Coord(0, 0), Coord(hex.q, hex.r))
    IN /\ hex.terrain \in {"Plains", "Forest"}
       /\ 10 * distance >= 3 * radius
       /\ 10 * distance <= 8 * radius
       /\ hex.poi = NoPoi)

\* the comparator () => rng() - 0.5 is negative when the value drawn is
\* below one half
DrawNegative(s) == s[1] < Two16 \div 2

(***************************************************************************)
(* Array.prototype.sort as the engine runs it on fewer than 64 elements:   *)
(* the leading run is counted (and reversed when descending), then every   *)
(* other element is placed by binary insertion.  The comparator ignores    *)
(* its operands, so the draws alone decide the order.                      *)
(***************************************************************************)
RECURSIVE CountRun(_, _, _, _, _)
CountRun(n, idx, desc, s, runLength) ==
  IF idx > n THEN [len |-> runLength, rng |-> s]
  ELSE LET s2 == LcgNext(s)
       IN IF desc # DrawNegative(s2) THEN [len |-> runLength, rng |-> s2]
          ELSE CountRun(n, idx + 1, desc, s2, runLength + 1)

Reverse(a) == [i \in 1..Len(a) |-> a[Len(a) + 1 - i]]

\* the binary search of one insertion; left and right count from 0
RECURSIVE BinarySearch(_, _, _)
BinarySearch(left, right, s) ==
  IF left >= right THEN [pos |-> left, rng |-> s]
  ELSE LET mid == left + ((right - left) \div 2)
           s2 == LcgNext(s)
       IN IF DrawNegative(s2) THEN BinarySearch(left, mid, s2)
          ELSE BinarySearch(mid + 1, right, s2)

RECURSIVE BinaryInsertionSort(_, _, _)
BinaryInsertionSort(a, start, s) ==
  IF start > Len(a) THEN [arr |-> a, rng |-> s]
  ELSE LET found == BinarySearch(0, start - 1, s)
           placed == SubSeq(a, 1, found.pos) \o <<a[start]>>
                     \o SubSeq(a, found.pos + 1, start - 1)
                     \o SubSeq(a, start + 1, Len(a))
       IN BinaryInsertionSort(placed, start + 1, found.rng)

\* [...suitableHexes].sort(() => rng() - 0.5)
SortShuffle(a, s) ==
  IF Len(a) < 2 THEN [arr |-> a, rng |-> s]
  ELSE LET s1 == LcgNext(s)
           desc == DrawNegative(s1)
           run == CountRun(Len(a), 3, desc, s1, 2)
           ordered == IF desc
                      THEN Reverse(SubSeq(a, 1, run.len)) \o SubSeq(a, run.len + 1, Len(a))
                      ELSE a
       IN BinaryInsertionSort(ordered, run.len + 1, run.rng)

\* the copy of parseHexCoords in mapGenerator.ts
parseHexCoords_mapGenerator(hexString) ==
  LET parts == split(hexString, ".")
      qStr == parts[1]
      rStr == IF Len(parts) >= 2 THEN parts[2] ELSE Undefined
      pq == parseInt(qStr)
      pr == parseInt(rStr)
  IN [q |-> pq.val, r |-> pr.val, nan |-> pq.nan \/ pr.nan]

\* startingLocations.every(existingLoc => axialDistance(hex, parse(existingLoc))
\*                                        >= radius * 0.25)
isFarEnough(hex, locations, radius) ==
  \A i \in 1..Len(locations) :
    4 * axialDistance(Coord(hex.q, hex.r), parseHexCoords_mapGenerator(locations[i]))
      >= radius

(***************************************************************************)
(* Specification of the coordinate helpers: a coordinate pair is encoded   *)
(* and the token is decoded again.                                         *)
(***************************************************************************)
CoordInputs == (-MaxCoord)..MaxCoord \cup {-100, 100, 999, 1000}

NoCoord == [q |-> 0, r |-> 0, nan |-> FALSE]

PathIdle ==
  /\ ppc = "off"
  /\ mapData = <<>>
  /\ pStart = Coord(0, 0)
  /\ pGoal = Coord(0, 0)
  /\ pResult = [found |-> FALSE, path |-> <<>>, cost |-> 0]

CoordIdle ==
  /\ cpc = "off"
  /\ cq = 0
  /\ cr = 0
  /\ token = <<>>
  /\ decoded = NoCoord

GenIdle ==
  /\ PERMUTATION = <<>>
  /\ gpc = "off"
  /\ gRadius = 0
  /\ gSeed = 0
  /\ gSettings = <<>>
  /\ rng = <<0, 0>>
  /\ noiseSeed = 0
  /\ gMap = <<>>
  /\ gq = 0
  /\ gr = 0
  /\ gi = 0
  /\ gKind = 0
  /\ gSuitable = <<>>
  /\ gShuffled = <<>>
  /\ startingLocations = <<>>
  /\ gCall = 0
  /\ gFirst = [map |-> <<>>, startingLocations |-> <<>>]

AIIdle ==
  /\ apc = "off"
  /\ tribe = <<>>
  /\ allTribes = <<>>
  /\ aiMapData = <<>>
  /\ actions = <<>>
  /\ threw = FALSE
  /\ aCall = 1
  /\ aFirst = <<>>

TurnIdle ==
  /\ tpc = "off"
  /\ gameState = <<>>
  /\ invoked = <<>>
  /\ handed = <<>>
  /\ atStart = <<>>

ClientIdle ==
  /\ socket = "closed"
  /\ attempts = 0
  /\ isConnected = FALSE
  /\ listeners = {}
  /\ promise = <<>>
  /\ timers = <<>>

JoinIdle ==
  /\ VISIBILITY_RANGE = 0
  /\ now = 0
  /\ alerts = 0

HelperIdle ==
  /\ hpc = "off"
  /\ hA = Coord(0, 0)
  /\ hB = Coord(0, 0)
  /\ hToken = <<>>
  /\ hOut = <<>>

CoordInit ==
  /\ cpc = "input"
  /\ cq \in CoordInputs
  /\ cr \in CoordInputs
  /\ token = <<>>
  /\ decoded = NoCoord
  /\ PathIdle
  /\ GenIdle
  /\ AIIdle
  /\ HelperIdle
  /\ TurnIdle
  /\ JoinIdle
  /\ ClientIdle

Encode ==
  /\ cpc = "input"
  /\ token' = formatHexCoords(cq, cr)
  /\ cpc' = "encoded"
  /\ UNCHANGED <<cq, cr, decoded, pathVars, genVars, aiVars, helperVars, turnVars, joinVars, clientVars>>

Decode ==
  /\ cpc = "encoded"
  /\ decoded' = parseHexCoords(token)
  /\ cpc' = "decoded"
  /\ UNCHANGED <<cq, cr, token, pathVars, genVars, aiVars, helperVars, turnVars, joinVars, clientVars>>

CoordNext == Encode \/ Decode

SpecCoords == CoordInit /\ [][CoordNext]_vars

(***************************************************************************)
(* Specification of findPath: one call on a hand-built patch.              *)
(***************************************************************************)
PatchOrigins == {Coord(0, 0), Coord(-2, -2)}

PathTerrains == {"Plains", "Mountains", "Water"}

\* the coordinates of the patch at origin o, q outermost
PatchCoords(o) ==
  [i \in 1..(PatchSize * PatchSize) |->
     Coord(o.q + ((i - 1) \div PatchSize), o.r + ((i - 1) % PatchSize))]

RECURSIVE BuildPatch(_, _, _, _)
BuildPatch(coords, i, base, rough) ==
  IF i > Len(coords) THEN <<>>
  ELSE LET t == IF i \in DOMAIN rough THEN rough[i] ELSE base
           rest == BuildPatch(coords, i + 1, base, rough)
       IN IF t = "absent" THEN rest
          ELSE <<[q |-> coords[i].q, r |-> coords[i].r, terrain |-> t, poi |-> NoPoi]>>
               \o rest

PathInit ==
  /\ ppc = "input"
  /\ \E o \in PatchOrigins, base \in PathTerrains :
       \E S \in {X \in SUBSET (1..(PatchSize * PatchSize)) : Cardinality(X) <= MaxRough} :
         \E rough \in [S -> (PathTerrains \cup {"absent"}) \ {base}] :
           /\ mapData = BuildPatch(PatchCoords(o), 1, base, rough)
           /\ \E i, j \in 1..(PatchSize * PatchSize) :
                /\ pStart = PatchCoords(o)[i]
                /\ pGoal = PatchCoords(o)[j]
  /\ pResult = NoPath
  /\ CoordIdle
  /\ GenIdle
  /\ AIIdle
  /\ HelperIdle
  /\ TurnIdle
  /\ JoinIdle
  /\ ClientIdle

FindPathCall ==
  /\ ppc = "input"
  /\ pResult' = findPath(pStart, pGoal, mapData)
  /\ ppc' = "done"
  /\ UNCHANGED <<mapData, pStart, pGoal, coordVars, genVars, aiVars, helperVars, turnVars, joinVars, clientVars>>

PathNext == FindPathCall

SpecPath == PathInit /\ [][PathNext]_vars

(***************************************************************************)
(* Specification of the world generator: generateMapData(radius, seed,     *)
(* settings) is called, and called a second time with the same arguments   *)
(* in the same process (the permutation table is module-level state).      *)
(***************************************************************************)
GenRadii == {0, 3, MaxRadius}

GenSeeds == 42..(41 + MaxSeeds)

\* getDefaultMapSettings of the server (weights in tenths), a two-terrain
\* setting, and the all-zero setting
DefaultBiases ==
  << [terrain |-> "Plains", weight |-> 10], [terrain |-> "Desert", weight |-> 10],
     [terrain |-> "Mountains", weight |-> 10], [terrain |-> "Forest", weight |-> 10],
     [terrain |-> "Ruins", weight |-> 8], [terrain |-> "Wasteland", weight |-> 10],
     [terrain |-> "Water", weight |-> 10], [terrain |-> "Radiation", weight |-> 5],
     [terrain |-> "Crater", weight |-> 7], [terrain |-> "Swamp", weight |-> 9] >>

GenSettings ==
  { DefaultBiases,
    << [terrain |-> "Forest", weight |-> 3], [terrain |-> "Mountains", weight |-> 1] >>,
    << [terrain |-> "Plains", weight |-> 0], [terrain |-> "Water", weight |-> 0] >> }

\* the two functions returned by generateNoise: both read the module-level
\* table at the time they are called
noise1(xt, yt) == noise(PERMUTATION, xt, yt)

noise2(xt, yt) == noise(PERMUTATION, xt, yt)

GenInit ==
  /\ gpc = "call"
  /\ gRadius \in GenRadii
  /\ gSeed \in GenSeeds
  /\ gSettings \in GenSettings
  /\ gCall = 1
  /\ gFirst = [map |-> <<>>, startingLocations |-> <<>>]
  /\ PERMUTATION = <<>>
  /\ rng = <<0, 0>>
  /\ noiseSeed = 0
  /\ gMap = <<>>
  /\ gq = 0
  /\ gr = 0
  /\ gi = 0
  /\ gKind = 0
  /\ gSuitable = <<>>
  /\ gShuffled = <<>>
  /\ startingLocations = <<>>
  /\ CoordIdle
  /\ PathIdle
  /\ AIIdle
  /\ HelperIdle
  /\ TurnIdle
  /\ JoinIdle
  /\ ClientIdle

genFrame == <<coordVars, pathVars, aiVars, helperVars, turnVars, joinVars, clientVars,
             genInputs>>

\* generateMapData: const rng = seedRandom(seed); generateBaseMap begins with
\* noiseSeed = Math.floor(rng() * 10000)
GenerateMapData ==
  /\ gpc = "call"
  /\ rng' = LcgNext(seedRandom(gSeed))
  /\ noiseSeed' = FloorMul(rng', 10000)
  /\ gMap' = <<>>
  /\ startingLocations' = <<>>
  /\ gpc' = "noise1"
  /\ UNCHANGED <<PERMUTATION, gq, gr, gi, gKind, gSuitable, gShuffled, genFrame>>

\* const noise1 = generateNoise(noiseSeed)
MakeNoise1 ==
  /\ gpc = "noise1"
  /\ PERMUTATION' = initPermutation(PERMUTATION, noiseSeed)
  /\ gpc' = "noise2"
  /\ UNCHANGED <<rng, noiseSeed, gMap, gq, gr, gi, gKind, gSuitable, gShuffled,
                 startingLocations, genFrame>>

\* const noise2 = generateNoise(noiseSeed + 10000)
MakeNoise2 ==
  /\ gpc = "noise2"
  /\ PERMUTATION' = initPermutation(PERMUTATION, noiseSeed + 10000)
  /\ gpc' = "hexes"
  /\ gq' = -gRadius
  /\ gr' = -gRadius
  /\ UNCHANGED <<rng, noiseSeed, gMap, gi, gKind, gSuitable, gShuffled,
                 startingLocations, genFrame>>

\* a generateBaseMap that skips the hexes at the boundary distance too
OutsideBoundaryOrOnIt(q, r, radius) ==
  axialDistance(Coord(0, 0), Coord(q, r)) >= radius

\* "if (axialDistance({ q: 0, r: 0 }, { q, r }) > radius) continue"
OutsideBoundary(q, r, radius) ==
  axialDistance(Coord(0, 0), Coord(q, r)) > radius

\* one iteration of the loop over q and r of generateBaseMap
GenerateHex ==
  /\ gpc = "hexes"
  /\ gq <= gRadius
  /\ IF OutsideBoundary(gq, gr, gRadius)
     THEN UNCHANGED <<gMap, rng>>
     ELSE LET noiseValue1 == noise1(gq, gr)
              noiseValue2 == noise2(gq, gr)
              chosen == ChooseTerrain(noiseValue1 + noiseValue2, rng, gSettings)
          IN /\ gMap' = Append(gMap, [q |-> gq, r |-> gr, terrain |-> chosen.terrain,
                                      poi |-> NoPoi])
             /\ rng' = chosen.rng
  /\ IF gr < gRadius
     THEN gr' = gr + 1 /\ gq' = gq
     ELSE gr' = -gRadius /\ gq' = gq + 1
  /\ gpc' = IF gq' > gRadius THEN "ruins" ELSE "hexes"
  /\ gi' = 0
  /\ UNCHANGED <<PERMUTATION, noiseSeed, gKind, gSuitable, gShuffled,
                 startingLocations, genFrame>>

\* Math.floor(map.length * 0.05)
ruinsCount == Len(gMap) \div 20

\* one iteration of the ruins loop
RuinsStep ==
  /\ gpc = "ruins"
  /\ gi < ruinsCount
  /\ rng' = LcgNext(rng)
  /\ LET index == FloorMul(rng', Len(gMap)) + 1
     IN gMap' = IF gMap[index].terrain # "Water"
                THEN [gMap EXCEPT ![index].terrain = "Ruins"]
                ELSE gMap
  /\ gi' = gi + 1
  /\ UNCHANGED <<PERMUTATION, gpc, noiseSeed, gq, gr, gKind, gSuitable, gShuffled,
                 startingLocations, genFrame>>

\* generateBaseMap returns; addPointsOfInterest starts with the first kind
RuinsDone ==
  /\ gpc = "ruins"
  /\ gi >= ruinsCount
  /\ gpc' = "poiKind"
  /\ gKind' = 1
  /\ UNCHANGED <<PERMUTATION, rng, noiseSeed, gMap, gq, gr, gi, gSuitable, gShuffled,
                 startingLocations, genFrame>>

\* the head of the loop over poiDistribution: the suitable hexes of the kind;
\* "if (suitableHexes.length === 0) continue"
BeginPoiKind ==
  /\ gpc = "poiKind"
  /\ gKind <= Len(poiDistribution)
  /\ gSuitable' = SuitableForPoi(gMap, poiDistribution[gKind].type)
  /\ IF gSuitable' = <<>>
     THEN gKind' = gKind + 1 /\ gpc' = "poiKind"
     ELSE gKind' = gKind /\ gpc' = "poiPlace"
  /\ gi' = 0
  /\ UNCHANGED <<PERMUTATION, rng, noiseSeed, gMap, gq, gr, gShuffled,
                 startingLocations, genFrame>>

\* one iteration of "for (i = 0; i < count && suitableHexes.length > 0; i++)"
PlacePoi ==
  /\ gpc = "poiPlace"
  /\ gi < poiDistribution[gKind].count
  /\ gSuitable # <<>>
  /\ LET s1 == LcgNext(rng)
         index == FloorMul(s1, Len(gSuitable))
         hex == gSuitable[index + 1]
         s2 == LcgNext(s1)
         poi == [id |-> <<poiDistribution[gKind].type, formatHexCoords(hex.q, hex.r)>>,
                 type |-> poiDistribution[gKind].type,
                 difficulty |-> FloorMul(s2, 10) + 1]
         mapIndex == FindIndex(gMap, hex)
     IN /\ gMap' = IF mapIndex # 0 THEN [gMap EXCEPT ![mapIndex].poi = poi] ELSE gMap
        /\ gSuitable' = Splice(gSuitable, index)
        /\ rng' = s2
  /\ gi' = gi + 1
  /\ UNCHANGED <<PERMUTATION, gpc, noiseSeed, gq, gr, gKind, gShuffled,
                 startingLocations, genFrame>>

\* the placement loop of one kind ends
EndPoiKind ==
  /\ gpc = "poiPlace"
  /\ ~(gi < poiDistribution[gKind].count /\ gSuitable # <<>>)
  /\ gKind' = gKind + 1
  /\ gpc' = "poiKind"
  /\ UNCHANGED <<PERMUTATION, rng, noiseSeed, gMap, gq, gr, gi, gSuitable, gShuffled,
                 startingLocations, genFrame>>

\* findStartingLocations: the filter and the shuffle
FindStartingLocations ==
  /\ gpc = "poiKind"
  /\ gKind > Len(poiDistribution)
  /\ LET shuffled == SortShuffle(SuitableForStart(gMap, gRadius), rng)
     IN /\ gShuffled' = shuffled.arr
        /\ rng' = shuffled.rng
  /\ startingLocations' = <<>>
  /\ gi' = 1
  /\ gpc' = "select"
  /\ UNCHANGED <<PERMUTATION, noiseSeed, gMap, gq, gr, gKind, gSuitable, genFrame>>

\* one iteration of "for (const hex of shuffledHexes)"
SelectStart ==
  /\ gpc = "select"
  /\ gi <= Len(gShuffled)
  /\ Len(startingLocations) < maxStartingLocations
  /\ LET hex == gShuffled[gi]
         coordStr == formatHexCoords(hex.q, hex.r)
     IN startingLocations' =
          IF isFarEnough(hex, startingLocations, gRadius)
          THEN Append(startingLocations, coordStr)
          ELSE startingLocations
  /\ gi' = gi + 1
  /\ UNCHANGED <<PERMUTATION, gpc, rng, noiseSeed, gMap, gq, gr, gKind, gSuitable,
                 gShuffled, genFrame>>

\* return { map, startingLocations }
ReturnMapData ==
  /\ gpc = "select"
  /\ gi > Len(gShuffled) \/ Len(startingLocations) >= maxStartingLocations
  /\ gpc' = "done"
  /\ UNCHANGED <<PERMUTATION, rng, noiseSeed, gMap, gq, gr, gi, gKind, gSuitable,
                 gShuffled, startingLocations, genFrame>>

\* the caller keeps the result and calls generateMapData again with the same
\* radius, seed and settings
CallAgain ==
  /\ gpc = "done"
  /\ gCall = 1
  /\ gFirst' = [map |-> gMap, startingLocations |-> startingLocations]
  /\ gCall' = 2
  /\ gpc' = "call"
  /\ UNCHANGED <<PERMUTATION, rng, noiseSeed, gMap, gq, gr, gi, gKind, gSuitable,
                 gShuffled, startingLocations, gRadius, gSeed, gSettings,
                 coordVars, pathVars, aiVars, helperVars, turnVars, joinVars, clientVars>>

GenNext ==
  \/ GenerateMapData
  \/ MakeNoise1
  \/ MakeNoise2
  \/ GenerateHex
  \/ RuinsStep
  \/ RuinsDone
  \/ BeginPoiKind
  \/ PlacePoi
  \/ EndPoiKind
  \/ FindStartingLocations
  \/ SelectStart
  \/ ReturnMapData
  \/ CallAgain

SpecGen == GenInit /\ [][GenNext]_vars

(***************************************************************************)
(* server/gameLogic/data/technologyData.ts.  An effect keeps its type      *)
(* only; the members of TechnologyEffectType are written as the strings    *)
(* aiActions.ts compares them with.                                        *)
(***************************************************************************)
TECHNOLOGIES ==
  << [id |-> "agriculture", cost |-> [scrap |-> 15], requiredTroops |-> 5,
      prerequisites |-> {},
      effects |-> <<[type |-> "PASSIVE_FOOD_GENERATION"]>>],
     [id |-> "scavenging", cost |-> [scrap |-> 20], requiredTroops |-> 8,
      prerequisites |-> {},
      effects |-> <<[type |-> "SCAVENGE_YIELD_BONUS"]>>],
     [id |-> "weapon_smithing", cost |-> [scrap |-> 30], requiredTroops |-> 10,
      prerequisites |-> {"scavenging"},
      effects |-> <<[type |-> "COMBAT_BONUS_ATTACK"]>>],
     [id |-> "fortification", cost |-> [scrap |-> 25], requiredTroops |-> 12,
      prerequisites |-> {"scavenging"},
      effects |-> <<[type |-> "COMBAT_BONUS_DEFENSE"]>>],
     [id |-> "hunting", cost |-> [scrap |-> 15], requiredTroops |-> 6,
      prerequisites |-> {},
      effects |-> <<[type |-> "SCAVENGE_YIELD_BONUS"]>>],
     [id |-> "advanced_agriculture", cost |-> [scrap |-> 40], requiredTroops |-> 15,
      prerequisites |-> {"agriculture"},
      effects |-> <<[type |-> "PASSIVE_FOOD_GENERATION"]>>],
     [id |-> "wasteland_adaptation", cost |-> [scrap |-> 35], requiredTroops |-> 12,
      prerequisites |-> {"hunting"},
      effects |-> <<[type |-> "MOVEMENT_SPEED_BONUS"], [type |-> "COMBAT_BONUS_ATTACK"]>>],
     [id |-> "arms_manufacturing", cost |-> [scrap |-> 50], requiredTroops |-> 20,
      prerequisites |-> {"weapon_smithing", "scavenging"},
      effects |-> <<[type |-> "SCAVENGE_YIELD_BONUS"]>>] >>

\* completedTechIds is modelled as the set of its elements
getAvailableTechnologies(completedTechIds) ==
  SelectSeq(TECHNOLOGIES,
            LAMBDA tech : /\ tech.id \notin completedTechIds
                          /\ tech.prerequisites \subseteq completedTechIds)

(***************************************************************************)
(* server/gameLogic/ai/aiTribeGenerator.ts: getAITribePersonality, the     *)
(* traits in tenths.                                                       *)
(***************************************************************************)
getAITribePersonality(aiType) ==
  IF aiType = "Wanderer"
  THEN [aggressiveness |-> 7, expansionism |-> 5, tradingAffinity |-> 3]
  ELSE [aggressiveness |-> 5, expansionism |-> 5, tradingAffinity |-> 5]

(***************************************************************************)
(* server/gameLogic/ai/aiActions.ts.  A tribe is a record [id, isAI,       *)
(* aiType, location, globalResources, garrisons, exploredHexes,            *)
(* completedTechs, currentResearch, diplomacy]; garrisons is the sequence  *)
(* of the entries of the garrisons object, in insertion order, each        *)
(* [location, troops, weapons].  Weapon counts of actions are in half      *)
(* units, because the scavenge rule computes troopsToSend / 2.             *)
(***************************************************************************)
Null == "null"

HasGarrison(t, loc) == \E i \in 1..Len(t.garrisons) : t.garrisons[i].location = loc

\* tribe.garrisons[loc], read when it is defined
GarrisonAt(t, loc) ==
  t.garrisons[CHOOSE i \in 1..Len(t.garrisons) : t.garrisons[i].location = loc]

RECURSIVE SumField(_, _, _)
\* Object.values(tribe.garrisons).reduce((sum, g) => sum + g.<field>, 0)
SumField(garrisons, field, i) ==
  IF i > Len(garrisons) THEN 0
  ELSE garrisons[i][field] + SumField(garrisons, field, i + 1)

Min(a, b) == IF a < b THEN a ELSE b

\* Math.floor(x * (tenths / 10)) in double arithmetic, for 0 <= x < 330: the
\* product falls below the integer it would be exactly for 0.7 * 90, 0.7 * 170
\* and 0.7 * 180 only
FloorTenths(x, tenths) ==
  ((x * tenths) \div 10) - (IF tenths = 7 /\ x \in {90, 170, 180} THEN 1 ELSE 0)

\* a > x * 0.7 in double arithmetic, for 0 <= x < 330
\* a findAttackTargets that takes no garrison to be too strong
NeverTooStrong(a, x) == FALSE

GreaterThanSevenTenths(a, x) ==
  \/ 10 * a > 7 * x
  \/ 10 * a = 7 * x /\ x \in {90, 170, 180}

HasEffect(tech, types) == \E i \in 1..Len(tech.effects) : tech.effects[i].type \in types

getNeighborCoords(q, r) ==
  [i \in 1..Len(directions) |-> formatHexCoords(q + directions[i].q, r + directions[i].r)]

RECURSIVE InsertByDistance(_, _, _)
\* x placed after the elements of the sorted s that are not farther than x
InsertByDistance(s, x, from) ==
  IF s = <<>> THEN <<x>>
  ELSE IF axialDistance(from, parseHexCoords(Head(s))) <= axialDistance(from, parseHexCoords(x))
       THEN <<Head(s)>> \o InsertByDistance(Tail(s), x, from)
       ELSE <<x>> \o s

RECURSIVE SortByDistance(_, _, _)
\* targets.sort((a, b) => aDist - bDist): a stable sort by the distance from
\* the parsed tribe location
SortByDistance(targets, n, from) ==
  IF n = 0 THEN <<>>
  ELSE InsertByDistance(SortByDistance(targets, n - 1, from), targets[n], from)

\* if (path): findPath returned a path and not null
Reachable(t, coordStr, md) ==
  findPath(parseHexCoords(t.location), parseHexCoords(coordStr), md).found

\* the coordinate tokens of the hexes of md that pass Test, in map order
KeysOf(hexes) == [i \in 1..Len(hexes) |-> HexKey(hexes[i])]

ScavengePois == {"Scrapyard", "Food Source", "WeaponsCache", "Mine", "Factory"}

IsScavengingTarget(t, md, hex) ==
  LET coordStr == HexKey(hex)
  IN /\ coordStr \in t.exploredHexes
     /\ coordStr # t.location
     /\ ~HasGarrison(t, coordStr)
     /\ \/ hex.poi # NoPoi /\ hex.poi.type \in ScavengePois
        \/ hex.terrain \in {"Forest", "Plains", "Ruins"}
     /\ Reachable(t, coordStr, md)

findScavengingTargets(t, md) ==
  LET targets == KeysOf(SelectSeq(md, LAMBDA hex : IsScavengingTarget(t, md, hex)))
  IN SortByDistance(targets, Len(targets), parseHexCoords(t.location))

IsScoutingTarget(t, md, hex) ==
  LET neighbors == getNeighborCoords(hex.q, hex.r)
  IN /\ HexKey(hex) \notin t.exploredHexes
     /\ \E i \in 1..Len(neighbors) : neighbors[i] \in t.exploredHexes
     /\ Reachable(t, HexKey(hex), md)

findScoutingTargets(t, md) ==
  LET targets == KeysOf(SelectSeq(md, LAMBDA hex : IsScoutingTarget(t, md, hex)))
  IN SortByDistance(targets, Len(targets), parseHexCoords(t.location))

\* every location at which some tribe has a garrison
OccupiedHexes(tribes) ==
  UNION {{tribes[i].garrisons[j].location : j \in 1..Len(tribes[i].garrisons)} :
           i \in 1..Len(tribes)}

MinOutpostDistance == 3

IsExpansionTarget(t, tribes, md, hex) ==
  LET coordStr == HexKey(hex)
      hexCoords == parseHexCoords(coordStr)
  IN /\ coordStr \in t.exploredHexes
     /\ coordStr \notin OccupiedHexes(tribes)
     /\ hex.terrain \notin {"Water", "Radiation"}
     /\ \A i \in 1..Len(t.garrisons) :
          axialDistance(hexCoords, parseHexCoords(t.garrisons[i].location))
            >= MinOutpostDistance
     /\ findPath(parseHexCoords(t.location), hexCoords, md).found

findExpansionTargets(t, tribes, md) ==
  LET targets == KeysOf(SelectSeq(md, LAMBDA hex : IsExpansionTarget(t, tribes, md, hex)))
  IN SortByDistance(targets, Len(targets), parseHexCoords(t.location))

RECURSIVE EnemyGarrisons(_, _, _, _, _)
\* the double loop over tribes and over the garrisons of each enemy
EnemyGarrisons(t, tribes, md, i, j) ==
  IF i > Len(tribes) THEN <<>>
  ELSE
    LET other == tribes[i]
        atWar == /\ other.id # t.id
                 /\ other.id \in DOMAIN t.diplomacy
                 /\ t.diplomacy[other.id].status = "War"
    IN IF ~atWar \/ j > Len(other.garrisons)
       THEN EnemyGarrisons(t, tribes, md, i + 1, 1)
       ELSE
         LET garrison == other.garrisons[j]
             hit == /\ garrison.location \in t.exploredHexes
                    /\ ~GreaterThanSevenTenths(garrison.troops,
                                               SumField(t.garrisons, "troops", 1))
                    /\ Reachable(t, garrison.location, md)
         IN (IF hit THEN <<garrison.location>> ELSE <<>>)
            \o EnemyGarrisons(t, tribes, md, i, j + 1)

findAttackTargets(t, tribes, md) ==
  LET targets == EnemyGarrisons(t, tribes, md, 1, 1)
  IN SortByDistance(targets, Len(targets), parseHexCoords(t.location))

needsFood(t) == t.globalResources.food < 100

\* line 34 reads the food stock, not the scrap stock
needsScrap(t) == t.globalResources.food < 30

totalTroops(t) == SumField(t.garrisons, "troops", 1)

totalWeapons(t) == SumField(t.garrisons, "weapons", 1)

needsTroops(t) == totalTroops(t) < 50

needsWeapons(t) == totalWeapons(t) < 30

\* actions.push({ id: `<prefix>-${Date.now()}`, actionType, actionData }); the
\* clock is read relative to its value at the first push and advances by
\* tick between two pushes
Push(st, tick, prefix, actionType, actionData) ==
  [st EXCEPT !.actions =
     Append(@, [id |-> <<prefix, tick * Len(@)>>,
                actionType |-> actionType,
                actionData |-> actionData])]

RationsRule(t, st, tick) ==
  IF t.globalResources.food < 50
  THEN Push(st, tick, "ai-rations", "SetRations", [ration_level |-> "Hard"])
  ELSE IF t.globalResources.food > 200
       THEN Push(st, tick, "ai-rations", "SetRations", [ration_level |-> "Normal"])
       ELSE st

\* a recruitment whose offer is taken from the clock as well
RecruitRuleByClock(t, st, tick) ==
  IF t.globalResources.food > 50 /\ needsTroops(t)
  THEN Push(st, tick, "ai-recruit", "Recruit",
            [food_offered |-> Min(FloorTenths(t.globalResources.food, 3), 100) + tick,
             start_location |-> t.location])
  ELSE st

RecruitRule(t, st, tick) ==
  IF t.globalResources.food > 50 /\ needsTroops(t)
  THEN Push(st, tick, "ai-recruit", "Recruit",
            [food_offered |-> Min(FloorTenths(t.globalResources.food, 3), 100),
             start_location |-> t.location])
  ELSE st

\* a weapons rule that takes the scrap it offers out of the tribe's stock
WeaponsRuleSpending(t, st, tick) ==
  IF t.globalResources.scrap > 30 /\ needsWeapons(t)
  THEN LET offered == Min(FloorTenths(t.globalResources.scrap, 5), 50)
           pushed == Push(st, tick, "ai-weapons", "BuildWeapons",
                          [scrap |-> offered, start_location |-> t.location])
       IN [pushed EXCEPT !.inputs.tribe.globalResources.scrap = @ - offered]
  ELSE st

WeaponsRule(t, st, tick) ==
  IF t.globalResources.scrap > 30 /\ needsWeapons(t)
  THEN Push(st, tick, "ai-weapons", "BuildWeapons",
            [scrap |-> Min(FloorTenths(t.globalResources.scrap, 5), 50),
             start_location |-> t.location])
  ELSE st

\* availableTechs.find(tech => tech.effects.some(...)): the index of the first
\* technology with an effect of one of the types, 0 when there is none
FirstWithEffect(techs, types) ==
  IF \E i \in 1..Len(techs) : HasEffect(techs[i], types)
  THEN CHOOSE i \in 1..Len(techs) :
         /\ HasEffect(techs[i], types)
         /\ \A j \in 1..(i - 1) : ~HasEffect(techs[j], types)
  ELSE 0

chooseTech(t, availableTechs) ==
  LET foodTech ==
        FirstWithEffect(availableTechs, {"PASSIVE_FOOD_GENERATION"})
      combatTech ==
        FirstWithEffect(availableTechs, {"COMBAT_BONUS_ATTACK", "COMBAT_BONUS_DEFENSE"})
  IN IF needsFood(t)
     THEN availableTechs[IF foodTech # 0 THEN foodTech ELSE 1]
     ELSE IF needsWeapons(t) /\ combatTech # 0
          THEN availableTechs[combatTech]
          ELSE availableTechs[1]

\* mainGarrison.troops is read without a test of mainGarrison: a tribe with no
\* garrison at its location makes the call throw
ResearchRule(t, st, tick) ==
  LET availableTechs == getAvailableTechnologies(t.completedTechs)
      chosenTech == chooseTech(t, availableTechs)
  IN IF \/ t.currentResearch # Null
        \/ availableTechs = <<>>
        \/ t.globalResources.scrap < 20
        \/ t.globalResources.scrap < chosenTech.cost.scrap
     THEN st
     ELSE IF ~HasGarrison(t, t.location)
          THEN [st EXCEPT !.threw = TRUE]
          ELSE
            LET assignableTroops ==
                  Min(FloorTenths(GarrisonAt(t, t.location).troops, 3),
                      chosenTech.requiredTroops + 2)
            IN IF assignableTroops >= chosenTech.requiredTroops
               THEN Push(st, tick, "ai-research", "StartResearch",
                         [techId |-> chosenTech.id,
                          location |-> t.location,
                          assignedTroops |-> assignableTroops])
               ELSE st

\* scavengingTargets is findScavengingTargets(tribe, mapData); likewise in the
\* three rules that follow
ScavengeRule(t, scavengingTargets, st, tick) ==
  IF (needsFood(t) \/ needsScrap(t)) /\ totalTroops(t) > 10
  THEN
       IF /\ scavengingTargets # <<>>
          /\ HasGarrison(t, t.location)
          /\ GarrisonAt(t, t.location).troops >= 10
       THEN
         LET mainGarrison == GarrisonAt(t, t.location)
             troopsToSend == Min(FloorTenths(mainGarrison.troops, 4), 20)
         IN Push(st, tick, "ai-scavenge", "Scavenge",
                 [troops |-> troopsToSend,
                  \* Math.min(Math.floor(weapons * 0.3), troopsToSend / 2), doubled
                  weapons |-> Min(2 * FloorTenths(mainGarrison.weapons, 3), troopsToSend),
                  resource_type |-> IF needsFood(t) THEN "Food" ELSE "Scrap",
                  start_location |-> t.location,
                  target_location |-> scavengingTargets[1]])
       ELSE st
  ELSE st

ScoutRule(t, scoutingTargets, st, tick, shouldScout) ==
  IF shouldScout /\ totalTroops(t) > 15
  THEN
       IF /\ scoutingTargets # <<>>
          /\ HasGarrison(t, t.location)
          /\ GarrisonAt(t, t.location).troops >= 5
       THEN Push(st, tick, "ai-scout", "Scout",
                 [troops |-> 5,
                  weapons |-> 2 * Min(2, GarrisonAt(t, t.location).weapons),
                  start_location |-> t.location,
                  target_location |-> scoutingTargets[1]])
       ELSE st
  ELSE st

ExpandRule(t, expansionTargets, st, tick, shouldExpand) ==
  IF shouldExpand /\ t.globalResources.scrap >= 30 /\ totalTroops(t) > 30
  THEN
       IF /\ expansionTargets # <<>>
          /\ HasGarrison(t, t.location)
          /\ GarrisonAt(t, t.location).troops >= 15
       THEN Push(st, tick, "ai-outpost", "BuildOutpost",
                 [troops |-> 15,
                  weapons |-> 2 * Min(8, GarrisonAt(t, t.location).weapons),
                  start_location |-> t.location,
                  finish_location |-> expansionTargets[1]])
       ELSE st
  ELSE st

AttackRule(t, attackTargets, st, tick, shouldAttack) ==
  IF shouldAttack /\ totalTroops(t) > 40 /\ totalWeapons(t) > 15
  THEN
       IF /\ attackTargets # <<>>
          /\ HasGarrison(t, t.location)
          /\ GarrisonAt(t, t.location).troops >= 25
       THEN
         LET mainGarrison == GarrisonAt(t, t.location)
             troopsToSend == Min(FloorTenths(mainGarrison.troops, 6), 40)
         IN Push(st, tick, "ai-attack", "Attack",
                 [troops |-> troopsToSend,
                  weapons |-> 2 * Min(FloorTenths(mainGarrison.weapons, 7), troopsToSend),
                  start_location |-> t.location,
                  target_location |-> attackTargets[1]])
       ELSE st
  ELSE st

RestRule(t, st, tick) ==
  IF st.actions = <<>>
  THEN Push(st, tick, "ai-rest", "Rest",
            [troops |-> FloorTenths(totalTroops(t), 5),
             start_location |-> t.location])
  ELSE st

\* the outcomes of Math.random() < tenths / 10
Draw(tenths) == {b \in BOOLEAN : (b => tenths > 0) /\ (~b => tenths < 10)}

ScoutChance == 3

\* the outcomes of the three random tests, and the advance of the clock
\* between two pushes
RandomTests == [shouldScout : BOOLEAN, shouldExpand : BOOLEAN, shouldAttack : BOOLEAN]

ClockTicks == 0..1

\* generateAIActions(tribe, allTribes, mapData), as a function of the outcomes
\* of its random tests and of the clock: [threw, actions, inputs], inputs
\* being the three arguments as the call leaves them.  The four target lists
\* depend on the arguments only; each is computed once and handed to the rule
\* that asks for it.
generateAIActions(t, tribes, md) ==
  LET s0 == [threw |-> FALSE, actions |-> <<>>,
             inputs |-> [tribe |-> t, allTribes |-> tribes, mapData |-> md]]
      decide(scavengingTargets, scoutingTargets, expansionTargets, attackTargets) ==
        [random \in RandomTests, tick \in ClockTicks |->
           IF ~t.isAI THEN s0
           ELSE
             LET s1 == RationsRule(t, s0, tick)
                 s2 == RecruitRule(t, s1, tick)
                 s3 == WeaponsRule(t, s2, tick)
                 s4 == ResearchRule(t, s3, tick)
             IN IF s4.threw THEN [s4 EXCEPT !.actions = <<>>]
                ELSE
                  LET s5 == ScavengeRule(t, scavengingTargets, s4, tick)
                      s6 == ScoutRule(t, scoutingTargets, s5, tick, random.shouldScout)
                      s7 == ExpandRule(t, expansionTargets, s6, tick, random.shouldExpand)
                      s8 == AttackRule(t, attackTargets, s7, tick, random.shouldAttack)
                  IN RestRule(t, s8, tick)]
  IN CHOOSE outcomes \in
       {decide(scavengingTargets, scoutingTargets, expansionTargets, attackTargets) :
          scavengingTargets \in {findScavengingTargets(t, md)},
          scoutingTargets \in {findScoutingTargets(t, md)},
          expansionTargets \in {findExpansionTargets(t, tribes, md)},
          attackTargets \in {findAttackTargets(t, tribes, md)}} : TRUE

(***************************************************************************)
(* Specification of the AI decision engine: one call of generateAIActions  *)
(* for a tribe on a patch of PatchSize x PatchSize hexes.  The tribe's     *)
(* location is the first hex of the patch, its outpost (when it has one)   *)
(* the second, the other tribe's garrison the last.                        *)
(***************************************************************************)
AITerrains ==
  <<"Plains", "Forest", "Water", "Plains", "Mountains", "Ruins", "Desert",
    "Plains", "Forest">>

\* the patch at origin o; its third hex bears a scrapyard
AIMap(o) ==
  [i \in 1..(PatchSize * PatchSize) |->
     [q |-> PatchCoords(o)[i].q,
      r |-> PatchCoords(o)[i].r,
      terrain |-> AITerrains[((i - 1) % Len(AITerrains)) + 1],
      poi |-> IF i = 3
              THEN [type |-> "Scrapyard", difficulty |-> 3, id |-> <<"poi">>]
              ELSE NoPoi]]

\* the garrison at the tribe's location: none, or [troops, weapons]
HomeGarrisons ==
  { <<>>,
    <<[troops |-> 1, weapons |-> 0]>>,
    <<[troops |-> 4, weapons |-> 0]>>,
    <<[troops |-> 12, weapons |-> 10]>>,
    <<[troops |-> 13, weapons |-> 10]>>,
    <<[troops |-> 31, weapons |-> 10]>>,
    <<[troops |-> 60, weapons |-> 40]>> }

Outposts == { <<>>, <<[troops |-> 20, weapons |-> 5]>> }

FoodLevels == {20, 50, 150, 250}

ScrapLevels == {10, 15, 25, 60}

\* the tribe's kind, whether it is at war with the other tribe, and how many
\* hexes of the patch it has explored
AISituations ==
  { [aiType |-> "Wanderer", atWar |-> FALSE, explored |-> PatchSize * PatchSize],
    [aiType |-> "Wanderer", atWar |-> TRUE, explored |-> PatchSize * PatchSize],
    [aiType |-> "Other", atWar |-> TRUE, explored |-> 5] }

\* the research in progress and the technologies completed: none of either,
\* hunting in progress, and a tribe that has completed the two food
\* technologies and hunting
ResearchStates ==
  { [currentResearch |-> Null, completedTechs |-> {}],
    [currentResearch |-> "hunting", completedTechs |-> {}],
    [currentResearch |-> Null,
     completedTechs |-> {"agriculture", "advanced_agriculture", "hunting"}] }

WithLocation(garrison, loc) ==
  [i \in 1..Len(garrison) |->
     [location |-> loc, troops |-> garrison[i].troops, weapons |-> garrison[i].weapons]]

AIInit ==
  /\ apc = "call"
  /\ \E o \in PatchOrigins :
       LET key(i) == HexKey(AIMap(o)[i])
           last == PatchSize * PatchSize
           enemy == [id |-> "tribe-2", isAI |-> FALSE, aiType |-> "Other",
                     location |-> key(last),
                     globalResources |-> [food |-> 100, scrap |-> 20],
                     \* a weak garrison, and nearer to the tribe a strong one
                     garrisons |-> <<[location |-> key(last), troops |-> 10,
                                      weapons |-> 5],
                                     [location |-> key(last - 1), troops |-> 50,
                                      weapons |-> 20]>>,
                     exploredHexes |-> {key(last)},
                     completedTechs |-> {},
                     currentResearch |-> Null,
                     diplomacy |-> <<>>]
           \* a tribe the AI tribe is not at war with, next to its location
           neutral == [id |-> "tribe-3", isAI |-> FALSE, aiType |-> "Other",
                       location |-> key(PatchSize + 1),
                       globalResources |-> [food |-> 100, scrap |-> 20],
                       garrisons |-> <<[location |-> key(PatchSize + 1), troops |-> 5,
                                        weapons |-> 0]>>,
                       exploredHexes |-> {key(PatchSize + 1)},
                       completedTechs |-> {},
                       currentResearch |-> Null,
                       diplomacy |-> <<>>]
       IN /\ aiMapData = AIMap(o)
          /\ \E home \in HomeGarrisons, outpost \in Outposts,
                food \in FoodLevels, scrap \in ScrapLevels,
                research \in ResearchStates, situation \in AISituations :
             \* a tribe that is not an AI is tried without garrisons only
             \E isAI \in IF home = <<>> /\ outpost = <<>> THEN BOOLEAN ELSE {TRUE} :
               /\ tribe = [id |-> "ai-tribe-1", isAI |-> isAI,
                           aiType |-> situation.aiType,
                           location |-> key(1),
                           globalResources |-> [food |-> food, scrap |-> scrap],
                           garrisons |-> WithLocation(home, key(1))
                                         \o WithLocation(outpost, key(2)),
                           exploredHexes |-> {key(i) : i \in 1..situation.explored},
                           completedTechs |-> research.completedTechs,
                           currentResearch |-> research.currentResearch,
                           diplomacy |-> IF situation.atWar
                                         THEN ("tribe-2" :> [status |-> "War"])
                                              @@ ("tribe-3" :> [status |-> "Neutral"])
                                         ELSE <<>>]
               /\ allTribes = <<tribe, neutral, enemy>>
  /\ actions = <<>>
  /\ threw = FALSE
  /\ aCall = 1
  /\ aFirst = <<>>
  /\ CoordIdle
  /\ PathIdle
  /\ GenIdle
  /\ HelperIdle
  /\ TurnIdle
  /\ JoinIdle
  /\ ClientIdle

\* the whole call: the three random tests and the clock are its only inputs
\* besides the arguments
GenerateAIActions ==
  /\ apc = "call"
  /\ \E result \in
         LET personality == getAITribePersonality(tribe.aiType)
             outcomes == generateAIActions(tribe, allTribes, aiMapData)
         IN {outcomes[random, tick] :
               random \in {x \in RandomTests :
                              /\ x.shouldScout \in Draw(ScoutChance)
                              /\ x.shouldExpand \in Draw(personality.expansionism)
                              /\ x.shouldAttack \in Draw(personality.aggressiveness)},
               tick \in ClockTicks} :
       /\ actions' = result.actions
       /\ threw' = result.threw
       /\ tribe' = result.inputs.tribe
       /\ allTribes' = result.inputs.allTribes
       /\ aiMapData' = result.inputs.mapData
  /\ apc' = "returned"
  /\ UNCHANGED <<aCall, aFirst, coordVars, pathVars, genVars, helperVars, turnVars, joinVars, clientVars>>

\* the caller keeps the outcome and calls generateAIActions again with the
\* same tribe, tribes and map
CallAgainAI ==
  /\ apc = "returned"
  /\ aCall = 1
  /\ aFirst' = [threw |-> threw, actions |-> actions]
  /\ aCall' = 2
  /\ apc' = "call"
  /\ UNCHANGED <<tribe, allTribes, aiMapData, actions, threw,
                 coordVars, pathVars, genVars, helperVars, turnVars, joinVars, clientVars>>

AINext == GenerateAIActions \/ CallAgainAI

SpecAI == AIInit /\ [][AINext]_vars

(***************************************************************************)
(* Specification of the helpers called directly: axialDistance on two      *)
(* coordinates, and parseHexCoords (both copies) on an arbitrary string.   *)
(***************************************************************************)
DistCoords == {Coord(q, r) : q, r \in (-MaxDist)..MaxDist}

\* strings handed to parseHexCoords: well-formed tokens, and strings with a
\* missing separator, an empty part, a non-numeric part, trailing characters
\* or a third part
RawTokens ==
  { <<"0", "0", "1", ".", "0", "0", "2">>,
    <<"-", "0", "5", ".", "0", "1", "0">>,
    <<"1", "2">>,
    <<"5", ".">>,
    <<".", "5">>,
    <<"a", "b", ".", "1">>,
    <<"1", ".", "x">>,
    <<"1", "x", ".", "2">>,
    <<"1", ".", "2", ".", "3">>,
    <<".">>,
    <<" ", "1", ".", "2">> }

\* parseHexCoords has no throw statement, and split, the array destructuring
\* and parseInt accept every string: the call always returns
parseHexCoordsCall(hexString) ==
  [threw |-> FALSE,
   value |-> parseHexCoords(hexString),
   valueGenerator |-> parseHexCoords_mapGenerator(hexString)]

HelperInit ==
  /\ hpc = "input"
  /\ \/ hA \in DistCoords /\ hB \in DistCoords /\ hToken = <<>>
     \/ hA = Coord(0, 0) /\ hB = Coord(0, 0) /\ hToken \in RawTokens
  /\ hOut = <<>>
  /\ CoordIdle
  /\ PathIdle
  /\ GenIdle
  /\ AIIdle
  /\ TurnIdle
  /\ JoinIdle
  /\ ClientIdle

AxialDistanceCall ==
  /\ hpc = "input"
  /\ hToken = <<>>
  /\ hOut' = [ab |-> axialDistance(hA, hB),
              ba |-> axialDistance(hB, hA),
              aa |-> axialDistance(hA, hA)]
  /\ hpc' = "measured"
  /\ UNCHANGED <<hA, hB, hToken, coordVars, pathVars, genVars, aiVars, turnVars, joinVars, clientVars>>

ParseHexCoordsCall ==
  /\ hpc = "input"
  /\ hToken # <<>>
  /\ hOut' = parseHexCoordsCall(hToken)
  /\ hpc' = "parsed"
  /\ UNCHANGED <<hA, hB, hToken, coordVars, pathVars, genVars, aiVars, turnVars, joinVars, clientVars>>

HelperNext == AxialDistanceCall \/ ParseHexCoordsCall

SpecHelpers == HelperInit /\ [][HelperNext]_vars

(***************************************************************************)
(* server/index.ts: the submit_turn and process_turn handlers, on a game   *)
(* of two AI tribes and one player's tribe on the patch at the origin.     *)
(* processGlobalTurn is outside the sources: the model ends the handler    *)
(* where the tribes are handed to it.                                      *)
(***************************************************************************)
\* the actions of a call whose first push reads the clock value start
Rebase(acts, start) ==
  [i \in 1..Len(acts) |-> [acts[i] EXCEPT !.id = <<@[1], @[2] + start>>]]

\* the callback of gameState.tribes.forEach for the k-th tribe, from the state
\* st = [tribes, invoked, clock, threw] of the loop: the set of states it can
\* leave, one for each outcome of the random tests and of the clock, which
\* stands still or advances by one (gap) between two calls.  An error raised
\* by generateAIActions ends the loop and the handler.
ForEachCallback(st, k, md) ==
  LET t == st.tribes[k]
      after(outcomes, random, tick, gap) ==
        LET out == outcomes[random, tick]
            start == st.clock + gap
            called == Append(st.invoked, t.id)
        IN IF out.threw
           THEN [st EXCEPT !.invoked = called, !.threw = TRUE]
           ELSE [tribes |-> [st.tribes EXCEPT ![k].actions = Rebase(out.actions, start),
                                              ![k].turnSubmitted = TRUE],
                 invoked |-> called,
                 clock |-> IF out.actions = <<>> THEN st.clock
                           ELSE start + tick * (Len(out.actions) - 1),
                 threw |-> FALSE]
  IN IF st.threw \/ ~(t.isAI /\ ~t.turnSubmitted) THEN {st}
     ELSE UNION
            { { after(outcomes, random, tick, gap) :
                  random \in {x \in RandomTests :
                     /\ x.shouldScout \in Draw(ScoutChance)
                     /\ x.shouldExpand
                          \in Draw(getAITribePersonality(t.aiType).expansionism)
                     /\ x.shouldAttack
                          \in Draw(getAITribePersonality(t.aiType).aggressiveness)},
                  tick \in ClockTicks, gap \in ClockTicks } :
              outcomes \in {generateAIActions(t, st.tribes, md)} }

RECURSIVE ForEachTribe(_, _, _)
\* gameState.tribes.forEach(...), from the k-th tribe on
ForEachTribe(sts, k, md) ==
  IF \A st \in sts : k > Len(st.tribes) THEN sts
  ELSE ForEachTribe(UNION {ForEachCallback(st, k, md) : st \in sts}, k + 1, md)

\* the stock and the garrisons of an AI tribe: the tribe as generateAITribe
\* makes it (30 troops, 15 weapons), a poor tribe, a tribe that has lost the
\* garrison of its location, and a tribe short of food with scrap to spend
TurnProfiles ==
  { [home |-> <<[troops |-> 30, weapons |-> 15]>>, outpost |-> <<>>,
     food |-> 150, scrap |-> 60],
    [home |-> <<[troops |-> 12, weapons |-> 10]>>, outpost |-> <<>>,
     food |-> 20, scrap |-> 10],
    [home |-> <<>>, outpost |-> <<[troops |-> 20, weapons |-> 5]>>,
     food |-> 150, scrap |-> 25],
    [home |-> <<[troops |-> 31, weapons |-> 10]>>, outpost |-> <<>>,
     food |-> 20, scrap |-> 60] }

TribeIds == <<"ai-tribe-1", "tribe-2", "ai-tribe-3">>

\* the lists a client submits
PlannedActions ==
  { <<>>,
    <<[id |-> <<"action", 1>>, actionType |-> "Rest",
       actionData |-> [troops |-> 5, start_location |-> formatHexCoords(1, 1)]]>> }

TurnTribe(k, isAI, profile, loc, outpostLoc, md) ==
  [id |-> TribeIds[k], isAI |-> isAI, aiType |-> "Wanderer",
   location |-> loc,
   globalResources |-> [food |-> profile.food, scrap |-> profile.scrap],
   garrisons |-> WithLocation(profile.home, loc)
                 \o WithLocation(profile.outpost, outpostLoc),
   exploredHexes |-> {HexKey(md[i]) : i \in 1..Len(md)},
   completedTechs |-> {},
   currentResearch |-> Null,
   \* a player's tribe that joins is at war with every AI tribe
   diplomacy |-> [id \in {TribeIds[j] : j \in 1..Len(TribeIds)} \ {TribeIds[k]} |->
                    [status |-> "War"]],
   turnSubmitted |-> FALSE,
   actions |-> <<>>,
   journeyResponses |-> <<>>]

TurnInit ==
  /\ tpc = "idle"
  /\ \E first \in TurnProfiles, second \in TurnProfiles :
       LET md == AIMap(Coord(0, 0))
           player == [home |-> <<[troops |-> 10, weapons |-> 5]>>, outpost |-> <<>>,
                      food |-> 100, scrap |-> 20]
       IN gameState =
            [tribes |-> << TurnTribe(1, TRUE, first, HexKey(md[1]), HexKey(md[2]), md),
                           TurnTribe(2, FALSE, player, HexKey(md[5]), HexKey(md[5]), md),
                           TurnTribe(3, TRUE, second, HexKey(md[9]), HexKey(md[8]), md) >>,
             mapData |-> md]
  /\ invoked = <<>>
  /\ handed = <<>>
  /\ atStart = <<>>
  /\ CoordIdle
  /\ PathIdle
  /\ GenIdle
  /\ AIIdle
  /\ HelperIdle
  /\ JoinIdle
  /\ ClientIdle

\* socket.on('submit_turn', ...): gameState.tribes.find(t => t.id === tribeId)
SubmitTurn ==
  /\ tpc = "idle"
  /\ \E tribeId \in {TribeIds[k] : k \in 1..Len(TribeIds)} \cup {"tribe-0"},
        plannedActions \in PlannedActions, journeyResponses \in {<<"accept">>} :
       LET found == {i \in 1..Len(gameState.tribes) : gameState.tribes[i].id = tribeId}
       IN IF found = {}
          THEN UNCHANGED gameState
          ELSE LET i == CHOOSE j \in found : \A l \in found : j <= l
               IN gameState' =
                    [gameState EXCEPT !.tribes[i].actions = plannedActions,
                                      !.tribes[i].turnSubmitted = TRUE,
                                      !.tribes[i].journeyResponses = journeyResponses]
  /\ UNCHANGED <<tpc, invoked, handed, atStart,
                 coordVars, pathVars, genVars, aiVars, helperVars, joinVars, clientVars>>

\* socket.on('process_turn', ...), up to the call of processGlobalTurn
ProcessTurn ==
  /\ tpc = "idle"
  /\ \E st \in ForEachTribe({[tribes |-> gameState.tribes, invoked |-> <<>>,
                              clock |-> 0, threw |-> FALSE]}, 1, gameState.mapData) :
       /\ gameState' = [gameState EXCEPT !.tribes = st.tribes]
       /\ invoked' = st.invoked
       /\ handed' = IF st.threw THEN <<>> ELSE st.tribes
       /\ tpc' = IF st.threw THEN "crashed" ELSE "resolving"
  /\ atStart' = gameState.tribes
  /\ UNCHANGED <<coordVars, pathVars, genVars, aiVars, helperVars, joinVars, clientVars>>

TurnNext == SubmitTurn \/ ProcessTurn

SpecTurn == TurnInit /\ [][TurnNext]_vars

(***************************************************************************)
(* server/index.ts: the create_tribe and add_ai_tribe events, on a game    *)
(* that starts without tribes.  A tribe is modelled by the fields the two  *)
(* handlers compute from the game state: id, kind, name, capital,          *)
(* garrisons, explored hexes and diplomacy.                                *)
(***************************************************************************)
MaxStarts == 3
MaxAlerts == 2

\* tokens as findStartingLocations returns them
StartTokens ==
  {formatHexCoords(1, 2), formatHexCoords(-4, 2), formatHexCoords(2, -1)}

\* the starting-location lists of a game: no token twice
StartLists ==
  {l \in UNION {[1..n -> StartTokens] : n \in 0..MaxStarts} :
     \A i, j \in 1..Len(l) : i # j => l[i] # l[j]}

VisibilityRanges == {1, 2}

\* what a client sends with create_tribe; it may carry fields of its own choice
NewTribeData ==
  { [tribeName |-> <<"Settlers">>],
    [tribeName |-> <<"Iron Raiders">>, location |-> formatHexCoords(1, 2)] }

AINames == {<<"Iron Raiders">>, <<"Rust Wolves">>}
IdSuffixes == {0, 999}

\* getHexesInRange(center, range): the square around center in loop order,
\* q outside and r inside, filtered by distance
getHexesInRange(center, range) ==
  LET side == 2 * range + 1
      square == [k \in 1..(side * side) |->
                   Coord(center.q - range + (k - 1) \div side,
                         center.r - range + ((k - 1) % side))]
      inRange == SelectSeq(square, LAMBDA c : axialDistance(c, center) <= range)
  IN [i \in 1..Len(inRange) |-> formatHexCoords(inRange[i].q, inRange[i].r)]

\* the first starting location whatever tribes there are
availableStartUnchecked(state) ==
  IF state.startingLocations = <<>> THEN [found |-> FALSE, loc |-> <<>>]
  ELSE [found |-> TRUE, loc |-> state.startingLocations[1]]

\* startingLocations.find(loc => !occupiedLocations.has(loc)), with
\* occupiedLocations = new Set(tribes.map(t => t.location))
availableStart(state) ==
  LET occupiedLocations == {state.tribes[i].location : i \in 1..Len(state.tribes)}
      free == {i \in 1..Len(state.startingLocations) :
                 state.startingLocations[i] \notin occupiedLocations}
  IN IF free = {} THEN [found |-> FALSE, loc |-> <<>>]
     ELSE [found |-> TRUE,
           loc |-> state.startingLocations[CHOOSE i \in free : \A j \in free : i <= j]]

\* existingTribe.isAI, undefined (falsy) on a tribe without the field
IsAI(t) == "isAI" \in DOMAIN t /\ t.isAI

\* tribes.forEach(existing => { newTribe.diplomacy[existing.id] = status;
\* existing.diplomacy[newTribe.id] = status }) with statuses[i] the status the
\* callback computes for the i-th tribe
SetBothWays(tribes, newTribe, statuses) ==
  [joined |-> [newTribe EXCEPT !.diplomacy =
                 [id \in {tribes[i].id : i \in 1..Len(tribes)} |->
                    statuses[CHOOSE i \in 1..Len(tribes) :
                               /\ tribes[i].id = id
                               /\ \A j \in (i + 1)..Len(tribes) : tribes[j].id # id]]],
   existing |-> [i \in 1..Len(tribes) |->
                   [tribes[i] EXCEPT !.diplomacy = (newTribe.id :> statuses[i]) @@ @]]]

\* generateUniqueTribeName: a name that no tribe has, or after 101 draws of
\* taken names the fallback built from the clock
generateUniqueTribeName(existingTribeNames, clock) ==
  (AINames \ existingTribeNames)
    \cup (IF AINames \cap existingTribeNames # {} THEN {<<"AI Tribe", clock>>} ELSE {})

\* generateAITribe: the tribes it can return, one for each outcome of the
\* random draws, when Date.now() reads clock
generateAITribe(startLocation, existingTribeNames, clock) ==
  { [id |-> <<"ai-tribe", clock, suffix>>,
     isAI |-> TRUE,
     aiType |-> "Wanderer",
     tribeName |-> name,
     garrisons |-> (startLocation :> [troops |-> 30, weapons |-> 15]),
     location |-> startLocation,
     exploredHexes |-> getHexesInRange(parseHexCoords(startLocation), VISIBILITY_RANGE),
     diplomacy |-> <<>>] :
    name \in generateUniqueTribeName(existingTribeNames, clock),
    suffix \in IdSuffixes }

JoinInit ==
  /\ tpc = "lobby"
  /\ \E l \in StartLists : gameState = [tribes |-> <<>>, startingLocations |-> l]
  /\ invoked = <<>>
  /\ handed = <<>>
  /\ atStart = <<>>
  /\ VISIBILITY_RANGE \in VisibilityRanges
  /\ now = 0
  /\ alerts = 0
  /\ CoordIdle
  /\ PathIdle
  /\ GenIdle
  /\ AIIdle
  /\ HelperIdle
  /\ ClientIdle

\* socket.on('create_tribe', ...): the clock stands still or has advanced by
\* one since the last event
CreateTribe ==
  /\ tpc = "lobby"
  /\ \E newTribeData \in NewTribeData, tick \in {0, 1} :
       LET start == availableStart(gameState)
           startCoords == parseHexCoords(start.loc)
           newTribe ==
             [id |-> <<"tribe", now + tick>>,
              location |-> start.loc,
              garrisons |-> (start.loc :> [troops |-> 20, weapons |-> 10]),
              exploredHexes |-> getHexesInRange(startCoords, VISIBILITY_RANGE),
              diplomacy |-> <<>>] @@ newTribeData
           entered == SetBothWays(gameState.tribes, newTribe,
                        [i \in 1..Len(gameState.tribes) |->
                           IF IsAI(gameState.tribes[i]) THEN "War" ELSE "Neutral"])
       IN IF ~start.found
          THEN /\ alerts < MaxAlerts
               /\ alerts' = alerts + 1
               /\ UNCHANGED <<gameState, now>>
          ELSE /\ gameState' = [gameState EXCEPT
                                  !.tribes = Append(entered.existing, entered.joined)]
               /\ now' = now + tick
               /\ UNCHANGED alerts
  /\ UNCHANGED <<tpc, invoked, handed, atStart, VISIBILITY_RANGE,
                 coordVars, pathVars, genVars, aiVars, helperVars, clientVars>>

\* the add_ai_tribe admin event
AddAITribe ==
  /\ tpc = "lobby"
  /\ \E tick \in {0, 1} :
       LET start == availableStart(gameState)
       IN IF start.found
          THEN /\ now' = now + tick
               /\ \E aiTribe \in generateAITribe(start.loc,
                                    {gameState.tribes[i].tribeName :
                                       i \in 1..Len(gameState.tribes)},
                                    now + tick) :
                    LET entered == SetBothWays(gameState.tribes, aiTribe,
                                     [i \in 1..Len(gameState.tribes) |-> "War"])
                    IN gameState' = [gameState EXCEPT
                         !.tribes = Append(entered.existing, entered.joined)]
          ELSE /\ tick = 0
               /\ UNCHANGED <<gameState, now>>
  /\ UNCHANGED <<tpc, invoked, handed, atStart, VISIBILITY_RANGE, alerts,
                 coordVars, pathVars, genVars, aiVars, helperVars, clientVars>>

JoinNext == CreateTribe \/ AddAITribe

SpecJoin == JoinInit /\ [][JoinNext]_vars

(***************************************************************************)
(* The client's socket module: the isConnected flag, its three listeners   *)
(* and ensureConnection.  The socket is "opening" while the manager tries  *)
(* to connect, "open" while socket.connected is true and "closed" when the *)
(* manager has given up or the server has closed it.  An event is          *)
(* dispatched to its listeners in the step in which the socket changes.    *)
(***************************************************************************)
reconnectionAttempts == 5

\* two of the api functions that await ensureConnection
Callers == {"getInitialState", "login"}

\* the listener registered at module load by socket.on('connect', ...)
Track == "track"

ClientInit ==
  /\ socket = "opening"
  /\ attempts = 0
  /\ isConnected = FALSE
  /\ listeners = {Track}
  /\ promise = [c \in Callers |-> "none"]
  /\ timers = <<>>
  /\ CoordIdle
  /\ PathIdle
  /\ GenIdle
  /\ AIIdle
  /\ HelperIdle
  /\ TurnIdle
  /\ JoinIdle

clientFrame == <<coordVars, pathVars, genVars, aiVars, helperVars, turnVars, joinVars>>

\* the connect event: the listener of module load and the once-listeners of
\* the pending calls that are still registered run (each clears its timer),
\* and the once-listeners are removed
OnConnect ==
  /\ socket = "opening"
  /\ socket' = "open"
  /\ attempts' = 0
  /\ isConnected' = IF listeners # {} THEN TRUE ELSE isConnected
  /\ promise' = [c \in Callers |-> IF c \in listeners THEN "resolved" ELSE promise[c]]
  /\ listeners' = listeners \cap {Track}
  /\ timers' = SelectSeq(timers, LAMBDA c : c \notin listeners)
  /\ UNCHANGED clientFrame

\* the disconnect event; the manager reconnects unless the server closed the
\* socket
OnDisconnect ==
  /\ socket = "open"
  /\ socket' \in {"opening", "closed"}
  /\ isConnected' = FALSE
  /\ UNCHANGED <<attempts, listeners, promise, timers, clientFrame>>

\* the connect_error event; after reconnectionAttempts failed reconnections
\* the manager gives up
OnConnectError ==
  /\ socket = "opening"
  /\ isConnected' = FALSE
  /\ IF attempts < reconnectionAttempts
     THEN attempts' = attempts + 1 /\ UNCHANGED socket
     ELSE attempts' = 0 /\ socket' = "closed"
  /\ UNCHANGED <<listeners, promise, timers, clientFrame>>

\* ensureConnection(), called by a caller that is not awaiting an earlier call
ensureConnection(c) ==
  /\ promise[c] # "pending"
  /\ IF isConnected
     THEN /\ promise' = [promise EXCEPT ![c] = "resolved"]
          /\ UNCHANGED <<socket, listeners, timers>>
     ELSE /\ socket' = IF socket = "closed" THEN "opening" ELSE socket
          /\ timers' = Append(timers, c)
          /\ listeners' = listeners \cup {c}
          /\ promise' = [promise EXCEPT ![c] = "pending"]
  /\ UNCHANGED <<attempts, isConnected, clientFrame>>

\* the callback of setTimeout in ensureConnection, for the timer that was set
\* first: socket.off('connect') removes every listener of the connect event
ConnectionTimeout(c) ==
  /\ timers # <<>> /\ Head(timers) = c
  /\ timers' = Tail(timers)
  /\ listeners' = {}
  /\ promise' = [promise EXCEPT ![c] = "rejected"]
  /\ UNCHANGED <<socket, attempts, isConnected, clientFrame>>

ClientNext ==
  \/ OnConnect
  \/ OnDisconnect
  \/ OnConnectError
  \/ \E c \in Callers : ensureConnection(c)
  \/ \E c \in Callers : ConnectionTimeout(c)

SpecClient == ClientInit /\ [][ClientNext]_vars

\* a timer that was set and not cleared fires
SpecClientFair == SpecClient /\ \A c \in Callers : WF_vars(ConnectionTimeout(c))

(***************************************************************************)
(* Claims about the client's connection.                                   *)
(***************************************************************************)
\* C29: while the socket is connected, a call of ensureConnection that is
\* waiting eventually resolves, whatever calls timed out before it.
C29_ConnectedCallResolves ==
  \A c \in Callers :
    (socket = "open" /\ promise[c] = "pending") ~> (promise[c] = "resolved")

(***************************************************************************)
(* Claims about the join events.                                           *)
(***************************************************************************)
Capitals == [i \in 1..Len(gameState.tribes) |-> gameState.tribes[i].location]

EveryStartTaken ==
  \A i \in 1..Len(gameState.startingLocations) :
    \E k \in 1..Len(Capitals) : Capitals[k] = gameState.startingLocations[i]

\* C28: after any sequence of create_tribe and add_ai_tribe events no two
\* tribes have the same capital, every capital is a starting location, the
\* k-th tribe to join holds the k-th starting location (the first that was
\* free when it joined), and a join that arrives when every starting location
\* is taken leaves the game state as it was.
C28_CapitalsFromTheList ==
  /\ [](/\ \A i, j \in 1..Len(Capitals) : i # j => Capitals[i] # Capitals[j]
        /\ Len(Capitals) <= Len(gameState.startingLocations)
        /\ \A k \in 1..Len(Capitals) : Capitals[k] = gameState.startingLocations[k])
  /\ [][EveryStartTaken => gameState' = gameState]_vars

\* three tribes of both kinds hold the three starting locations, and a
\* create_tribe that arrived afterwards was answered with an alert
C28_Witness ==
  /\ tpc = "lobby"
  /\ Len(gameState.startingLocations) = MaxStarts
  /\ Len(gameState.tribes) = MaxStarts
  /\ \E i, j \in 1..Len(gameState.tribes) :
       IsAI(gameState.tribes[i]) /\ ~IsAI(gameState.tribes[j])
  /\ alerts > 0

(***************************************************************************)
(* Reference notions for the claims about findPath, stated on the hex      *)
(* graph itself: hexes are adjacent when their axial distance is 1, and    *)
(* entering a hex costs its terrain's movement cost.                       *)
(***************************************************************************)
OnMap(c) == \E i \in 1..Len(mapData) : mapData[i].q = c.q /\ mapData[i].r = c.r

TerrainAt(c) ==
  mapData[CHOOSE i \in 1..Len(mapData) : mapData[i].q = c.q /\ mapData[i].r = c.r].terrain

Enterable(c) == OnMap(c) /\ terrainCosts[TerrainAt(c)] < 2 * ImpassableCost

MapCoords == {Coord(mapData[i].q, mapData[i].r) : i \in 1..Len(mapData)}

SetMin(S) == CHOOSE x \in S : \A y \in S : x <= y

\* one round of relaxation of the cheapest known costs from the start
RelaxOnce(dist) ==
  LET cand(v) ==
        {dist[u] + terrainCosts[TerrainAt(v)] :
           u \in {w \in DOMAIN dist : axialDistance(w, v) = 1}}
        \cup (IF v \in DOMAIN dist THEN {dist[v]} ELSE {})
      reached == {v \in MapCoords \cup DOMAIN dist :
                    v \in DOMAIN dist \/ (Enterable(v) /\ cand(v) # {})}
  IN [v \in reached |-> IF Enterable(v) /\ v # pStart THEN SetMin(cand(v)) ELSE dist[v]]

RECURSIVE RelaxTimes(_, _)
RelaxTimes(dist, n) == IF n = 0 THEN dist ELSE RelaxTimes(RelaxOnce(dist), n - 1)

\* the cheapest cost, in half units, of a route from pStart to every hex that
\* has one
CheapestCosts == RelaxTimes((pStart :> 0), Len(mapData))

RouteExists == pGoal \in DOMAIN CheapestCosts

\* the cost, in half units, of the hexes a returned path enters
PathCost(path) ==
  LET tm == terrainMapOf(mapData)
      RECURSIVE Sum(_)
      Sum(i) == IF i > Len(path) THEN 0 ELSE terrainCosts[tm[path[i]]] + Sum(i + 1)
  IN Sum(2)

\* C2: whenever a traversable route from start to goal exists, findPath
\* returns a path, and the terrain cost of the hexes that path enters is the
\* minimum over all routes.
C2_MinimumCostPath ==
  (ppc = "done" /\ RouteExists) =>
    (pResult.found /\ PathCost(pResult.path) = CheapestCosts[pGoal])

WaterRing ==
  /\ pStart # pGoal
  /\ axialDistance(pStart, pGoal) > 1
  /\ \A i \in 1..6 :
       OnMap(getNeighbors(pGoal)[i]) /\ TerrainAt(getNeighbors(pGoal)[i]) = "Water"

\* C3: a goal whose six neighbours are all water is unreachable from a start
\* outside the ring: findPath reports not-found.
C3_WaterRingNoPath == (ppc = "done" /\ WaterRing) => ~pResult.found

\* C4: findPath reports not-found exactly when no route of adjacent on-map
\* hexes below the impassability threshold leads from start to goal; a result
\* always carries a non-empty path, the one-element path of cost 0 when start
\* and goal coincide.
C4_NotFoundIffNoRoute ==
  ppc = "done" =>
    /\ pResult.found <=> RouteExists
    /\ pResult.found => pResult.path # <<>>
    /\ pStart = pGoal =>
         (pResult.found /\ pResult.cost = 0
          /\ pResult.path = <<formatHexCoords(pStart.q, pStart.r)>>)

\* the hex a token of a returned path stands for: the start for the first
\* token, the hex of the map with that token for the others
HexOfPathToken(path, i) ==
  IF i = 1 THEN pStart
  ELSE LET k == CHOOSE n \in 1..Len(mapData) : HexKey(mapData[n]) = path[i]
       IN Coord(mapData[k].q, mapData[k].r)

\* C26: a returned path begins with the start token and ends with the goal
\* token, every token after the first is that of a hex of the map, no token
\* occurs twice, consecutive hexes are adjacent, and the cost is the sum of
\* the movement costs of the hexes after the first, rounded up.
C26_PathWellFormed ==
  (ppc = "done" /\ pResult.found) =>
    LET path == pResult.path
    IN /\ path # <<>>
       /\ path[1] = formatHexCoords(pStart.q, pStart.r)
       /\ path[Len(path)] = formatHexCoords(pGoal.q, pGoal.r)
       /\ \A i \in 2..Len(path) : \E n \in 1..Len(mapData) : HexKey(mapData[n]) = path[i]
       /\ \A i, j \in 1..Len(path) : path[i] = path[j] => i = j
       /\ \A i \in 1..(Len(path) - 1) :
            axialDistance(HexOfPathToken(path, i), HexOfPathToken(path, i + 1)) = 1
       /\ pResult.cost = (PathCost(path) + 1) \div 2

(***************************************************************************)
(* Claims about the world generator and the noise generator.               *)
(***************************************************************************)
\* C5: a second call of generateMapData with the same radius, seed and
\* settings returns the same hex list (coordinates, terrain, points of
\* interest) and the same starting locations in the same order.
C5_Deterministic ==
  (gpc = "done" /\ gCall = 2) =>
    (gMap = gFirst.map /\ startingLocations = gFirst.startingLocations)

C5_Witness ==
  /\ gpc = "done"
  /\ gCall = 2
  /\ startingLocations # <<>>
  /\ \E i, j \in 1..Len(gMap) : gMap[i].terrain # gMap[j].terrain
  /\ \E i \in 1..Len(gMap) : gMap[i].poi # NoPoi

\* C6: the function returned by generateNoise(noiseSeed) keeps returning the
\* values its own seed determines after generateNoise(noiseSeed + 10000) has
\* been called: while the hexes are sampled, noise1 agrees with a noise
\* function over the table built from noiseSeed.
C6_NoiseOwnsTable ==
  (gpc = "hexes" /\ gq <= gRadius) =>
    noise1(gq, gr) = noise(initPermutation(<<>>, noiseSeed), gq, gr)

\* the hex of the map that a coordinate token names
HexOfToken(tok) ==
  LET i == CHOOSE k \in 1..Len(gMap) : HexKey(gMap[k]) = tok
  IN Coord(gMap[i].q, gMap[i].r)

\* C9: any two distinct starting locations returned are at an axial distance
\* of at least 0.25 * radius.
C9_StartSpacing ==
  gpc = "done" =>
    \A i, j \in 1..Len(startingLocations) :
      i # j =>
        4 * axialDistance(HexOfToken(startingLocations[i]),
                          HexOfToken(startingLocations[j])) >= gRadius

\* the number of steps from the origin to (q, r): the larger of |q| and |r|
\* when their signs differ, |q + r| otherwise
StepsFromOrigin(q, r) ==
  IF (q >= 0) = (r >= 0) THEN Abs(q + r)
  ELSE IF Abs(q) > Abs(r) THEN Abs(q) ELSE Abs(r)

C10_PoiNeverOverwritten ==
  [][\A i \in 1..Len(gMap) :
       (gMap[i].poi # NoPoi /\ i <= Len(gMap')) => gMap'[i].poi = gMap[i].poi]_vars

C10_Witness ==
  /\ gpc = "poiPlace"
  /\ gKind >= 2
  /\ gi >= 1
  /\ \E i, j \in 1..Len(gMap) :
       /\ gMap[i].poi.type = poiDistribution[1].type
       /\ gMap[j].poi.type = poiDistribution[gKind].type
       /\ gMap[i].terrain \in terrainCompatibility(poiDistribution[gKind].type)

(***************************************************************************)
(* Claims about the AI decision engine.                                    *)
(***************************************************************************)
\* the troops an action commits (assignedTroops for research)
ActionTroops(a) ==
  IF "troops" \in DOMAIN a.actionData THEN a.actionData.troops
  ELSE IF "assignedTroops" \in DOMAIN a.actionData THEN a.actionData.assignedTroops
       ELSE 0

\* twice the weapons an action commits
ActionWeapons(a) ==
  IF "weapons" \in DOMAIN a.actionData THEN a.actionData.weapons ELSE 0

\* what the tribe's garrison at the action's start location holds; an action
\* that commits troops names its start location
HeldAtStart(a, field) ==
  LET loc == IF "start_location" \in DOMAIN a.actionData
             THEN a.actionData.start_location
             ELSE a.actionData.location
  IN IF HasGarrison(tribe, loc) THEN GarrisonAt(tribe, loc)[field] ELSE 0

\* C7: every returned action commits no more troops and weapons than the
\* garrison at its start location holds, and no more food or scrap than the
\* tribe's global stock; the fallback rest action included.
C7_NoOverdraft ==
  apc = "returned" =>
    \A i \in 1..Len(actions) :
      LET a == actions[i]
      IN /\ ActionTroops(a) > 0 => ActionTroops(a) <= HeldAtStart(a, "troops")
         /\ ActionWeapons(a) > 0 => ActionWeapons(a) <= 2 * HeldAtStart(a, "weapons")
         /\ "food_offered" \in DOMAIN a.actionData =>
              a.actionData.food_offered <= tribe.globalResources.food
         /\ "scrap" \in DOMAIN a.actionData =>
              a.actionData.scrap <= tribe.globalResources.scrap

HomeActionTypes == {"StartResearch", "Scavenge", "Scout", "BuildOutpost", "Attack"}

RECURSIVE SumCommitted(_, _, _)
\* the troops (or twice the weapons) committed by the research, scavenge,
\* scout, outpost and attack actions of acts, summed
SumCommitted(acts, what, i) ==
  IF i > Len(acts) THEN 0
  ELSE (IF acts[i].actionType \notin HomeActionTypes THEN 0
        ELSE IF what = "troops" THEN ActionTroops(acts[i])
             ELSE ActionWeapons(acts[i]))
       + SumCommitted(acts, what, i + 1)

\* C8: over all the research, scavenge, scout, outpost and attack actions of
\* one call, the troops committed sum to no more than the home garrison's
\* troops, and the weapons to no more than its weapons.
C8_NoCumulativeOverdraft ==
  (apc = "returned" /\ HasGarrison(tribe, tribe.location)) =>
    /\ SumCommitted(actions, "troops", 1) <= GarrisonAt(tribe, tribe.location).troops
    /\ SumCommitted(actions, "weapons", 1)
         <= 2 * GarrisonAt(tribe, tribe.location).weapons

\* the set-rations, recruit, build-weapons and start-research actions of a
\* list, in order, without their ids
DeterministicTypes == {"SetRations", "Recruit", "BuildWeapons", "StartResearch"}

DeterministicPart(acts) ==
  LET keep(a) == a.actionType \in DeterministicTypes
      kept == SelectSeq(acts, keep)
  IN [i \in 1..Len(kept) |->
        [actionType |-> kept[i].actionType, actionData |-> kept[i].actionData]]

\* C11: two calls of generateAIActions on the same tribe, tribes and map that
\* both return, return the same set-rations, recruit, build-weapons and
\* start-research actions (types and payloads), whatever the random tests and
\* the clock give in each call.
C11_SameDeterministicActions ==
  (apc = "returned" /\ aCall = 2 /\ ~threw /\ ~aFirst.threw) =>
    DeterministicPart(actions) = DeterministicPart(aFirst.actions)

C11_Witness ==
  /\ apc = "returned"
  /\ aCall = 2
  /\ ~threw
  /\ ~aFirst.threw
  /\ Len(DeterministicPart(actions)) >= 3
  /\ Len(actions) # Len(aFirst.actions)

\* C14: a call of generateAIActions never ends in an error; it returns a list.
C14_NeverRaises == apc = "returned" => ~threw

\* C17: a call of generateAIActions leaves the tribe, the list of tribes and
\* the map as they were when it was called.
C17_InputsUntouched ==
  [][(apc = "call" /\ apc' = "returned") =>
       (tribe' = tribe /\ allTribes' = allTribes /\ aiMapData' = aiMapData)]_vars

C17_Witness ==
  /\ apc = "returned"
  /\ ~threw
  /\ Len(actions) >= 5
  /\ \E i \in 1..Len(actions) : actions[i].actionType = "BuildWeapons"

\* C19: every returned action that carries a troop count commits at least one
\* troop, every recruit action offers at least one food and every
\* build-weapons action at least one scrap.
C19_NoZeroAmount ==
  apc = "returned" =>
    \A i \in 1..Len(actions) :
      LET a == actions[i]
      IN /\ "troops" \in DOMAIN a.actionData => a.actionData.troops >= 1
         /\ "assignedTroops" \in DOMAIN a.actionData => a.actionData.assignedTroops >= 1
         /\ "food_offered" \in DOMAIN a.actionData => a.actionData.food_offered >= 1
         /\ "scrap" \in DOMAIN a.actionData => a.actionData.scrap >= 1

\* the technology the preference order names: the first available one with a
\* food-generation effect when food is short and there is one, otherwise the
\* first available one with a combat effect when weapons are short and there
\* is one, otherwise the first available one
PreferredTech(t) ==
  LET available == getAvailableTechnologies(t.completedTechs)
      first(types) ==
        available[CHOOSE i \in 1..Len(available) :
                    /\ HasEffect(available[i], types)
                    /\ \A j \in 1..(i - 1) : ~HasEffect(available[j], types)]
      some(types) == \E i \in 1..Len(available) : HasEffect(available[i], types)
      foodTypes == {"PASSIVE_FOOD_GENERATION"}
      combatTypes == {"COMBAT_BONUS_ATTACK", "COMBAT_BONUS_DEFENSE"}
  IN IF t.globalResources.food < 100 /\ some(foodTypes) THEN first(foodTypes)
     ELSE IF SumField(t.garrisons, "weapons", 1) < 30 /\ some(combatTypes)
          THEN first(combatTypes)
          ELSE available[1]

\* C20: the technology of a returned start-research action is the one the
\* preference order names for the tribe.
C20_ResearchPreference ==
  apc = "returned" =>
    \A i \in 1..Len(actions) :
      actions[i].actionType = "StartResearch" =>
        actions[i].actionData.techId = PreferredTech(tribe).id

\* the coordinates within the circular boundary, counted without axialDistance
Disc(radius) ==
  { c \in {Coord(q, r) : q, r \in (-radius)..radius} :
      (c.q + c.r) \in (-radius)..radius }

BaseMapBuilt == gpc \in {"ruins", "poiKind", "poiPlace", "select", "done"}

\* C13: once the base map is built, and through the ruins pass, the POI pass
\* and the return, the map holds exactly one hex for every axial coordinate at
\* distance <= radius from the origin: 3 * radius * (radius + 1) + 1 hexes,
\* none outside, none missing, none twice.
C13_OneHexPerCoordinate ==
  BaseMapBuilt =>
    /\ {Coord(gMap[i].q, gMap[i].r) : i \in 1..Len(gMap)} = Disc(gRadius)
    /\ Len(gMap) = 3 * gRadius * (gRadius + 1) + 1
    /\ \A i, j \in 1..Len(gMap) :
         (gMap[i].q = gMap[j].q /\ gMap[i].r = gMap[j].r) => i = j

\* C30: every hex of a generated map has a terrain of the terrain enumeration,
\* whatever non-negative bias weights the settings hold, all-zero weights
\* included.
C30_TerrainInEnumeration ==
  \A i \in 1..Len(gMap) : gMap[i].terrain \in TerrainTypes

C13_Witness ==
  /\ gpc = "done"
  /\ gRadius = MaxRadius
  /\ Len(gMap) = 3 * MaxRadius * (MaxRadius + 1) + 1
  /\ \E i \in 1..Len(gMap) : gMap[i].terrain = "Ruins"
  /\ \E i \in 1..Len(gMap) : gMap[i].poi # NoPoi

(***************************************************************************)
(* Claims about the helpers called directly.                               *)
(***************************************************************************)
\* C12: axialDistance(a, b) = axialDistance(b, a) >= 0 and
\* axialDistance(a, a) = 0, for all integer coordinates a and b.
C12_DistanceSymmetric ==
  hpc = "measured" => (hOut.ab = hOut.ba /\ hOut.ab >= 0 /\ hOut.aa = 0)

C12_Witness ==
  /\ hpc = "measured"
  /\ hA.q < hB.q
  /\ hA.r > hB.r
  /\ hOut.ab > 0

\* a well-formed coordinate token: two parts around one ".", each an optional
\* minus sign followed by decimal digits only
WellFormedPart(part) ==
  LET body == IF part # <<>> /\ Head(part) = "-" THEN Tail(part) ELSE part
  IN body # <<>> /\ \A i \in 1..Len(body) : body[i] \in DigitSet

WellFormedToken(hexString) ==
  LET parts == split(hexString, ".")
  IN Len(parts) = 2 /\ WellFormedPart(parts[1]) /\ WellFormedPart(parts[2])

\* C18: parseHexCoords, given a string that is not a well-formed coordinate
\* token, signals the invalid input to its caller instead of returning a value.
C18_InvalidTokenSignalled ==
  (hpc = "parsed" /\ ~WellFormedToken(hToken)) => hOut.threw

\* the start-research actions of a list
ResearchActions(acts) ==
  {i \in 1..Len(acts) : acts[i].actionType = "StartResearch"}

\* C21: for an AI tribe with no research in progress and an available
\* technology, a start-research action is returned exactly when the scrap cost
\* of the selected technology is at most the tribe's scrap and 30% of the home
\* garrison's troops, rounded down, is at least the required troops; its
\* assignedTroops is then between required and required + 2.
C21_ResearchWhenAffordable ==
  (/\ apc = "returned"
   /\ tribe.isAI
   /\ tribe.currentResearch = Null
   /\ getAvailableTechnologies(tribe.completedTechs) # <<>>) =>
    LET selected == chooseTech(tribe, getAvailableTechnologies(tribe.completedTechs))
        affordable == selected.cost.scrap <= tribe.globalResources.scrap
        spare == /\ HasGarrison(tribe, tribe.location)
                 /\ (3 * GarrisonAt(tribe, tribe.location).troops) \div 10
                      >= selected.requiredTroops
    IN /\ (ResearchActions(actions) # {}) <=> (affordable /\ spare)
       /\ \A i \in ResearchActions(actions) :
            /\ actions[i].actionData.assignedTroops >= selected.requiredTroops
            /\ actions[i].actionData.assignedTroops <= selected.requiredTroops + 2

\* C22: an AI tribe whose scrap is below 30 while its food is not short
\* (at least 100), with more than 10 troops in all, at least 10 troops in its
\* home garrison and a scavenging target, is returned a scavenge action for
\* scrap.
C22_ScavengeForScrap ==
  (/\ apc = "returned"
   /\ ~threw
   /\ tribe.isAI
   /\ tribe.globalResources.scrap < 30
   /\ tribe.globalResources.food >= 100
   /\ SumField(tribe.garrisons, "troops", 1) > 10
   /\ HasGarrison(tribe, tribe.location)
   /\ GarrisonAt(tribe, tribe.location).troops >= 10
   /\ findScavengingTargets(tribe, aiMapData) # <<>>) =>
    \E i \in 1..Len(actions) :
      /\ actions[i].actionType = "Scavenge"
      /\ actions[i].actionData.resource_type = "Scrap"

\* the garrisons, as <<tribe index, garrison index>>, at a location
GarrisonsOn(loc) ==
  UNION { {<<i, j>> : j \in {n \in 1..Len(allTribes[i].garrisons) :
                               allTribes[i].garrisons[n].location = loc}} :
            i \in 1..Len(allTribes) }

AtWarWith(id) ==
  /\ id # tribe.id
  /\ id \in DOMAIN tribe.diplomacy
  /\ tribe.diplomacy[id].status = "War"

\* C23: the target of a returned attack action is an explored hex that holds a
\* garrison of a tribe at war with the deciding tribe, of at most 0.7 times
\* the deciding tribe's total troops, and no garrison of the deciding tribe
\* or of a tribe it is not at war with.
C23_AttackOnlyWeakEnemies ==
  apc = "returned" =>
    \A n \in 1..Len(actions) :
      actions[n].actionType = "Attack" =>
        LET target == actions[n].actionData.target_location
        IN /\ target \in tribe.exploredHexes
           /\ \E g \in GarrisonsOn(target) :
                10 * allTribes[g[1]].garrisons[g[2]].troops
                  <= 7 * SumField(tribe.garrisons, "troops", 1)
           /\ \A g \in GarrisonsOn(target) : AtWarWith(allTribes[g[1]].id)

\* an attack is returned while a nearer explored enemy garrison is too strong
\* and a tribe that is no enemy has a garrison next to the tribe
C23_Witness ==
  /\ apc = "returned"
  /\ \E n \in 1..Len(actions) : actions[n].actionType = "Attack"
  /\ \E i \in 1..Len(allTribes) :
       /\ AtWarWith(allTribes[i].id)
       /\ \E j \in 1..Len(allTribes[i].garrisons) :
            /\ allTribes[i].garrisons[j].location \in tribe.exploredHexes
            /\ 10 * allTribes[i].garrisons[j].troops
                 > 7 * SumField(tribe.garrisons, "troops", 1)
  /\ \E i \in 1..Len(allTribes) :
       /\ allTribes[i].id # tribe.id
       /\ ~AtWarWith(allTribes[i].id)
       /\ allTribes[i].garrisons[1].location \in tribe.exploredHexes

RestActions(acts) == {i \in 1..Len(acts) : acts[i].actionType = "Rest"}

\* C24: a call for an AI tribe returns a non-empty list, in which a rest
\* action is present exactly when there is no other action and commits half
\* the tribe's total troops, rounded down; a call for a tribe that is not an
\* AI returns the empty list.
C24_RestIsTheFallback ==
  apc = "returned" =>
    IF tribe.isAI
    THEN /\ ~threw
         /\ actions # <<>>
         /\ (RestActions(actions) # {})
              <=> (\A i \in 1..Len(actions) : actions[i].actionType = "Rest")
         /\ \A i \in RestActions(actions) :
              /\ Len(actions) = 1
              /\ actions[i].actionData.troops
                   = SumField(tribe.garrisons, "troops", 1) \div 2
    ELSE ~threw /\ actions = <<>>

\* C27: every troop count and every weapon count of a returned action is a
\* non-negative integer (weapon counts are kept in half units: a whole
\* number of weapons is an even count).
C27_WholeTroopsAndWeapons ==
  apc = "returned" =>
    \A i \in 1..Len(actions) :
      /\ ActionTroops(actions[i]) \in Nat
      /\ ActionWeapons(actions[i]) \in Nat
      /\ ActionWeapons(actions[i]) % 2 = 0

(***************************************************************************)
(* Claims about the turn advance.                                          *)
(***************************************************************************)
\* the actions generated during the turn advance, as <<tribe index, position>>
GeneratedActions ==
  UNION { {<<k, i>> : i \in 1..Len(gameState.tribes[k].actions)} :
            k \in {j \in 1..Len(gameState.tribes) :
                     \E n \in 1..Len(invoked) : invoked[n] = gameState.tribes[j].id} }

\* C15: after a turn advance, every action generated by the AI engine has an
\* id different from that of every other generated action, of the same tribe
\* or of another, whatever the clock did between the calls.
C15_UniqueActionIds ==
  tpc = "resolving" =>
    \A a, b \in GeneratedActions :
      a # b => gameState.tribes[a[1]].actions[a[2]].id
                 # gameState.tribes[b[1]].actions[b[2]].id

\* the tribes generateAIActions is to be invoked for
Pending(tribes) == {k \in 1..Len(tribes) : tribes[k].isAI /\ ~tribes[k].turnSubmitted}

\* C16: when the process_turn handler is over, generateAIActions was invoked
\* once for each AI tribe that had not submitted and for no other tribe, the
\* tribes were handed to turn resolution, the lists submitted before are in
\* what was handed over as they were, and every AI tribe handed over is
\* marked as submitted.
C16_OncePerPendingAI ==
  tpc \in {"resolving", "crashed"} =>
    /\ \A k \in 1..Len(atStart) :
         Cardinality({n \in 1..Len(invoked) : invoked[n] = atStart[k].id})
           = IF k \in Pending(atStart) THEN 1 ELSE 0
    /\ tpc = "resolving"
    /\ Len(handed) = Len(atStart)
    /\ \A k \in 1..Len(atStart) :
         /\ atStart[k].turnSubmitted => handed[k].actions = atStart[k].actions
         /\ handed[k].isAI => handed[k].turnSubmitted

\* C1: decoding the token that encodes (q, r) gives back exactly (q, r), for
\* every integer q and r, negative ones included.
C1_RoundTrip ==
  cpc = "decoded" => (~decoded.nan /\ decoded.q = cq /\ decoded.r = cr)

====
